---- MODULE Spec2Model ----
(***************************************************************************)
(* Model of the Confluence MCP server (src/mcp-server-stdio.js): the       *)
(* confluence_patch_update tool, its input validation, the line diff       *)
(* summary it decides on, the plain confluence_update_page tool, and the   *)
(* remote page they read and write.                                        *)
(*                                                                         *)
(* JavaScript values are tagged records: Undefined, Null, Num(n), Str(s),  *)
(* a string being the sequence of its characters.                          *)
(***************************************************************************)
EXTENDS Integers, Sequences, FiniteSets, TLC

\* ------------------------------------------------------------------ bounds
\* Highest page version the remote store reaches in a run.
MaxVersion == 3
\* Longest attachment listing the remote store answers with.
MaxAttachments == 3
\* Longest generated text handed to validateInput and calculateContentDiff
\* when they are run on their own.
MaxTextLen == 3

\* ------------------------------------------------------------ JS values
Undefined == [kind |-> "undefined"]
Null == [kind |-> "null"]
Num(n) == [kind |-> "number", num |-> n]
Str(s) == [kind |-> "string", chars |-> s]
Bool(b) == [kind |-> "boolean", bool |-> b]

\* JavaScript truthiness (the test made by `!input` and by `originalVersion &&`).
Truthy(v) ==
  CASE v.kind = "undefined" -> FALSE
    [] v.kind = "null" -> FALSE
    [] v.kind = "number" -> v.num # 0
    [] v.kind = "boolean" -> v.bool
    [] v.kind = "string" -> v.chars # << >>

\* A character outside ASCII, or one TLA+ has no escape for, is written as the
\* one-element string naming its code point: "U+00A0" is the single character
\* NO-BREAK SPACE.
\* The ECMAScript WhiteSpace code points: TAB, VT, FF, SP, NBSP, ZWNBSP and
\* the Unicode space separators (category Zs).
SpaceSeparators ==
  {"U+1680", "U+2000", "U+2001", "U+2002", "U+2003", "U+2004", "U+2005",
   "U+2006", "U+2007", "U+2008", "U+2009", "U+200A", "U+202F", "U+205F",
   "U+3000"}
\* The ECMAScript LineTerminator code points: LF, CR, LS, PS.
LineTerminators == {"\n", "\r", "U+2028", "U+2029"}

\* String.prototype.trim removes white space and line terminators at both ends.
WhiteSpace ==
  {"\t", "U+000B", "\f", " ", "U+00A0", "U+FEFF"} \cup SpaceSeparators
  \cup LineTerminators

RECURSIVE TrimStart(_)
TrimStart(s) ==
  IF s # << >> /\ Head(s) \in WhiteSpace THEN TrimStart(Tail(s)) ELSE s

RECURSIVE TrimEnd(_)
TrimEnd(s) ==
  IF s # << >> /\ s[Len(s)] \in WhiteSpace
    THEN TrimEnd(SubSeq(s, 1, Len(s) - 1))
    ELSE s

\* Mutant: only the leading white space is removed.
Trim_StartOnly(s) == TrimStart(s)

Trim(s) == TrimEnd(TrimStart(s))

\* String.prototype.includes: needle occurs as a contiguous substring.
Includes(s, needle) ==
  \E i \in 1..(Len(s) - Len(needle) + 1) :
    SubSeq(s, i, i + Len(needle) - 1) = needle

ScriptTag == <<"<", "s", "c", "r", "i", "p", "t">>
JavascriptUri == <<"j", "a", "v", "a", "s", "c", "r", "i", "p", "t", ":">>

\* ----------------------------------------------------------- validateInput
Threw(msg) == [threw |-> TRUE, error |-> msg]
Returned(v) == [threw |-> FALSE, value |-> v]

\* Mutant: the required test without `input.trim() === ''`.
validateInput_NoBlankTest(input) ==
  IF ~Truthy(input) THEN Threw("required")
  ELSE IF input.kind # "string" THEN Threw("TypeError")
  ELSE IF Includes(input.chars, ScriptTag) \/ Includes(input.chars, JavascriptUri)
    THEN Threw("unsafe")
  ELSE Returned(Trim(input.chars))

\* validateInput(input, type, required = true), always called with required
\* left at its default.  A truthy non-string reaches input.trim(), which is
\* not a function: a TypeError.
validateInput(input) ==
  IF ~Truthy(input) THEN Threw("required")
  ELSE IF input.kind # "string" THEN Threw("TypeError")
  ELSE IF Trim(input.chars) = << >> THEN Threw("required")
  ELSE IF Includes(input.chars, ScriptTag) \/ Includes(input.chars, JavascriptUri)
    THEN Threw("unsafe")
  ELSE Returned(Trim(input.chars))

\* ------------------------------------------------------------- line diff
\* diffLines tokenizes a text into its lines, each keeping its terminating
\* newline; a text ending in a newline has no empty last line.
RECURSIVE Tokenize(_, _, _)
Tokenize(s, i, line) ==
  IF i > Len(s) THEN (IF line = << >> THEN << >> ELSE <<line>>)
  ELSE IF s[i] = "\n" THEN <<Append(line, s[i])>> \o Tokenize(s, i + 1, << >>)
  ELSE Tokenize(s, i + 1, Append(line, s[i]))

\* Mutant: the lines are compared without their terminators.
Lines_NoTerminators(s) ==
  LET lines == Tokenize(s, 1, << >>)
  IN [i \in DOMAIN lines |->
        IF lines[i][Len(lines[i])] = "\n"
          THEN SubSeq(lines[i], 1, Len(lines[i]) - 1) ELSE lines[i]]

Lines(s) == Tokenize(s, 1, << >>)

\* The change objects of the diff package: `added` and `removed` say what
\* happened to `count` tokens (both false: common to the two texts).
Component(added, removed, count) ==
  [added |-> added, removed |-> removed, count |-> count]

\* pushComponent: one more token of the same kind as the last component
\* goes into that component, another kind starts a new component.
pushComponent(components, added, removed) ==
  IF /\ components # << >>
     /\ components[Len(components)].added = added
     /\ components[Len(components)].removed = removed
    THEN [components EXCEPT ![Len(components)].count = @ + 1]
    ELSE Append(components, Component(added, removed, 1))

\* The number of equal tokens that follow position newPos of the new tokens
\* and position oldPos of the old ones (positions count from 0; -1 is before
\* the first token).
RECURSIVE CommonCount(_, _, _, _)
CommonCount(newString, oldString, newPos, oldPos) ==
  IF /\ newPos + 1 < Len(newString)
     /\ oldPos + 1 < Len(oldString)
     /\ newString[newPos + 2] = oldString[oldPos + 2]
    THEN 1 + CommonCount(newString, oldString, newPos + 1, oldPos + 1)
    ELSE 0

\* extractCommon: a path on diagonal diagonalPath (newPos - oldPos) slides
\* along the equal tokens ahead of it; these become one common component.
extractCommon(basePath, newString, oldString, diagonalPath) ==
  LET commonCount == CommonCount(newString, oldString, basePath.newPos,
                                 basePath.newPos - diagonalPath)
  IN [newPos |-> basePath.newPos + commonCount,
      components |-> IF commonCount > 0
                       THEN Append(basePath.components,
                                   Component(FALSE, FALSE, commonCount))
                       ELSE basePath.components]

\* A path has consumed both token lists.
PathDone(path, newString, oldString, diagonalPath) ==
  /\ path.newPos + 1 >= Len(newString)
  /\ (path.newPos - diagonalPath) + 1 >= Len(oldString)

\* One turn of the loop of execEditLength: the best path of diagonal
\* diagonalPath at this edit length, from the best paths of the previous edit
\* length on the diagonals beside it (bestPath holds only the diagonals that
\* have a path).  A removal from the path above is taken when nothing can be
\* added, or when the path below has consumed fewer new tokens; otherwise a
\* token is added to the path below.  None stands for `undefined`.
DiagonalPath(bestPath, diagonalPath, newString, oldString) ==
  LET hasAdd == (diagonalPath - 1) \in DOMAIN bestPath
      hasRemove == (diagonalPath + 1) \in DOMAIN bestPath
      addPath == bestPath[diagonalPath - 1]
      removePath == bestPath[diagonalPath + 1]
      oldPos == (IF hasRemove THEN removePath.newPos ELSE 0) - diagonalPath
      canAdd == hasAdd /\ addPath.newPos + 1 < Len(newString)
      canRemove == hasRemove /\ 0 <= oldPos /\ oldPos < Len(oldString)
  IN IF ~canAdd /\ ~canRemove THEN [kind |-> "none"]
     ELSE IF ~canAdd \/ (canRemove /\ addPath.newPos < removePath.newPos)
       THEN extractCommon([newPos |-> removePath.newPos,
                           components |-> pushComponent(removePath.components,
                                                        FALSE, TRUE)],
                          newString, oldString, diagonalPath)
     ELSE extractCommon([newPos |-> addPath.newPos + 1,
                         components |-> pushComponent(addPath.components,
                                                      TRUE, FALSE)],
                        newString, oldString, diagonalPath)

\* execEditLength, called with editLength 1, 2, ...: the diagonals
\* -editLength, -editLength + 2, ..., editLength are visited in this order
\* and the first path that has consumed both token lists is the result;
\* when there is none the paths found are the best paths of the next call.
RECURSIVE execEditLength(_, _, _, _)
execEditLength(bestPath, editLength, newString, oldString) ==
  LET diagonals == {d \in (0 - editLength)..editLength : (d + editLength) % 2 = 0}
      first(done) == CHOOSE d \in done : \A e \in done : d <= e
      loop(path) ==
        LET found == {d \in diagonals : path[d] # [kind |-> "none"]}
            done == {d \in found : PathDone(path[d], newString, oldString, d)}
        IN IF done # {}
             THEN path[first(done)].components
             ELSE execEditLength([d \in found |-> path[d]], editLength + 1,
                                 newString, oldString)
  IN loop([d \in diagonals |-> DiagonalPath(bestPath, d, newString, oldString)])

\* buildValues: going through the components from the first, a removed
\* component that follows an added one changes places with it, so that the
\* removal is listed first.
RECURSIVE buildValues(_, _)
buildValues(components, componentPos) ==
  IF componentPos > Len(components) THEN components
  ELSE IF /\ components[componentPos].removed
          /\ componentPos > 1
          /\ components[componentPos - 1].added
    THEN buildValues([components EXCEPT
                        ![componentPos - 1] = components[componentPos],
                        ![componentPos] = components[componentPos - 1]],
                     componentPos + 1)
    ELSE buildValues(components, componentPos + 1)

\* Diff.diff on two token lists: the path of edit length 0 slides along the
\* common start; when that consumes both lists the result is one common
\* component counting the new tokens (a single component of count 0 for two
\* empty lists); otherwise the edit lengths are tried in turn.
Diff(oldString, newString) ==
  LET start == extractCommon([newPos |-> -1, components |-> << >>],
                             newString, oldString, 0)
  IN IF PathDone(start, newString, oldString, 0)
       THEN <<Component(FALSE, FALSE, Len(newString))>>
       ELSE buildValues(execEditLength([d \in {0} |-> start], 1,
                                       newString, oldString), 1)

\* diffLines(old, new) of the diff package with its default options: the
\* change objects over the lines, which are compared exactly.
diffLines(oldText, newText) == Diff(Lines(oldText), Lines(newText))

\* The template literal `+${addedLines} -${removedLines} lines`, kept as its
\* fixed text and the numbers put into it.
ChangesSummary(hasChanges, addedLines, removedLines) ==
  IF hasChanges
    THEN [text |-> "+{0} -{1} lines", args |-> <<addedLines, removedLines>>]
    ELSE [text |-> "No changes", args |-> << >>]

\* The loop of calculateContentDiff over the first n parts: its three
\* accumulators.
RECURSIVE Tally(_, _)
Tally(diff, n) ==
  IF n = 0 THEN [hasChanges |-> FALSE, addedLines |-> 0, removedLines |-> 0]
  ELSE LET acc == Tally(diff, n - 1)
           part == diff[n]
       IN IF part.added
            THEN [acc EXCEPT !.hasChanges = TRUE, !.addedLines = @ + part.count]
          ELSE IF part.removed
            THEN [acc EXCEPT !.hasChanges = TRUE, !.removedLines = @ + part.count]
          ELSE acc

\* Mutant: the loop counts parts, not the lines in them.
calculateContentDiff_CountParts(originalContent, newContent) ==
  LET diff == diffLines(originalContent, newContent)
      added == Cardinality({i \in DOMAIN diff : diff[i].added})
      removed == Cardinality({i \in DOMAIN diff : diff[i].removed})
      hasChanges == added + removed > 0
  IN [hasChanges |-> hasChanges, addedLines |-> added, removedLines |-> removed,
      changesSummary |-> ChangesSummary(hasChanges, added, removed)]

\* Mutant: hasChanges is set for every part of the diff, common ones too.
calculateContentDiff_AnyPart(originalContent, newContent) ==
  LET diff == diffLines(originalContent, newContent)
      sums == Tally(diff, Len(diff))
      hasChanges == diff # << >>
  IN [hasChanges |-> hasChanges,
      addedLines |-> sums.addedLines,
      removedLines |-> sums.removedLines,
      changesSummary |-> ChangesSummary(hasChanges, sums.addedLines, sums.removedLines)]

calculateContentDiff(originalContent, newContent) ==
  LET loop(diff) == Tally(diff, Len(diff))
      result(sums) ==
        [hasChanges |-> sums.hasChanges,
         addedLines |-> sums.addedLines,
         removedLines |-> sums.removedLines,
         changesSummary |-> ChangesSummary(sums.hasChanges, sums.addedLines,
                                           sums.removedLines)]
  IN result(loop(diffLines(originalContent, newContent)))

\* ------------------------------------------------------------ the inputs
\* Page ids, titles and bodies used in the runs.
PageId == <<"1">>
OldTitle == <<"O">>
NewTitle == <<"T">>
BodyA == <<"a">>
BodyB == <<"b">>
BodySpA == <<" ", "a">>
\* A title and a body with white space at both ends.
PaddedTitle == <<" ", "T", " ">>
PaddedBodyB == <<"\n", "b", " ">>

\* One input of each kind validateInput rejects.
BadInputs ==
  {Undefined, Str(<< >>), Str(<<" ">>), Str(<<" ", "\n">>),
   Str(<<"x">> \o ScriptTag \o <<">">>), Str(JavascriptUri \o <<"x">>)}

Contents == {Str(BodyA), Str(BodyB), Str(BodySpA)}
\* originalVersion: left out, zero, and two version numbers.
Baselines == {Undefined, Num(0), Num(1), Num(2)}
Forces == {Undefined, Bool(TRUE)}

Args(p, t, c, v, f) ==
  [pageId |-> p, title |-> t, content |-> c, originalVersion |-> v,
   forceUpdate |-> f]

\* Requests that pass validation, and requests with one bad field.
GoodArgs ==
  {Args(Str(PageId), Str(NewTitle), c, v, f) :
     c \in Contents, v \in Baselines, f \in Forces}

BadArgs ==
  {Args(x, Str(NewTitle), Str(BodyB), Undefined, Undefined) : x \in BadInputs}
  \cup {Args(Str(PageId), x, Str(BodyB), Undefined, Undefined) : x \in BadInputs}
  \cup {Args(Str(PageId), Str(NewTitle), x, Undefined, Undefined) : x \in BadInputs}

\* The tool names of the dispatcher's switch, and a name it does not know.
Search == "confluence_search"
GetPage == "confluence_get_page"
CreatePage == "confluence_create_page"
UpdatePage == "confluence_update_page"
PatchUpdate == "confluence_patch_update"
GetAttachments == "confluence_get_attachments"
DownloadAttachment == "confluence_download_attachment"
GetPageWithAttachments == "confluence_get_page_with_attachments"
UnknownTool == "confluence_delete_page"

\* Reading a property of the arguments object: undefined when it is absent.
Arg(args, name) == IF name \in DOMAIN args THEN args[name] ELSE Undefined

\* Arguments of confluence_update_page: it has no originalVersion and no
\* forceUpdate, which read as undefined.
UpdateArgs ==
  {Args(Str(PageId), Str(NewTitle), c, Undefined, Undefined) :
     c \in {Str(BodyA), Str(BodyB)}}

\* Attachments as the listing names them: a plain one, one whose title has
\* white space around it, and one whose title is empty.
PlainAttachment == [id |-> <<"7">>, title |-> <<"f">>]
PaddedAttachment == [id |-> <<"8">>, title |-> <<" ", "g">>]
UntitledAttachment == [id |-> <<"9">>, title |-> << >>]
Attachments == {PlainAttachment, PaddedAttachment, UntitledAttachment}

\* A space key and a CQL query.
SpaceKey == <<"S">>
Cql == <<"q">>

\* One invocation of each tool that only reads, and one that creates a page.
OtherRequests ==
  {[name |-> Search, arguments |-> [cql |-> Str(Cql)]],
   [name |-> GetPage, arguments |-> [pageId |-> Str(PageId)]],
   [name |-> CreatePage,
    arguments |-> [space_key |-> Str(SpaceKey), title |-> Str(NewTitle),
                   content |-> Str(BodyB)]],
   [name |-> GetAttachments, arguments |-> [pageId |-> Str(PageId)]],
   [name |-> DownloadAttachment,
    arguments |-> [attachmentId |-> Str(PlainAttachment.id),
                   filename |-> Str(PlainAttachment.title)]],
   [name |-> GetPageWithAttachments,
    arguments |-> [pageId |-> Str(PageId), downloadAttachments |-> Bool(TRUE)]]}

\* The tool invocations a run draws from.
Requests ==
  {[name |-> PatchUpdate, arguments |-> a] : a \in GoodArgs \cup BadArgs}
  \cup {[name |-> UpdatePage, arguments |-> a] : a \in UpdateArgs}
  \cup OtherRequests
  \cup {[name |-> UnknownTool,
         arguments |-> Args(Str(PageId), Str(NewTitle), Str(BodyB), Undefined, Undefined)]}

\* Bodies another actor writes.
ExternalBodies == {BodyB, BodySpA}

\* The concurrent tool invocations of a run: c1 draws from all the requests,
\* c2, which runs beside it, from those that write to the store and one
\* that is refused.
Calls == {"c1", "c2"}

RivalRequests ==
  {[name |-> PatchUpdate,
    arguments |-> Args(Str(PageId), Str(NewTitle), Str(b), v, f)] :
     b \in {BodyB, BodySpA}, v \in {Undefined, Num(1), Num(2)}, f \in Forces}
  \cup {[name |-> PatchUpdate,
         arguments |-> Args(Str(PageId), Str(NewTitle),
                            Str(<<"x">> \o ScriptTag \o <<">">>), Undefined, Undefined)]}
  \cup {[name |-> UpdatePage,
         arguments |-> Args(Str(PageId), Str(NewTitle), Str(BodyB), Undefined, Undefined)]}
  \cup {request \in OtherRequests : request.name = CreatePage}

RequestsOf(c) == IF c = "c1" THEN Requests ELSE RivalRequests

\* ----------------------------------------------------------------- state
VARIABLES
  remote,   \* the remote store: page id -> [version, title, body]
  enforce,  \* whether the remote store checks the declared version of a PUT
  calls,    \* per invocation: position, arguments, what it read and sent
  probe,    \* a helper function applied on its own: its inputs and its result
  job       \* a multi-request operation in progress: its inputs, position and log

vars == <<remote, enforce, calls, probe, job>>

None == [kind |-> "none"]

\* An invocation: where it stands, the tool named, its arguments, the page its GET returned,
\* the body of the PUT or POST it sent, what it returned or threw, the HTTP
\* requests it issued and the answers it got, (for a PUT the store has
\* taken) the version the page had just before, and (for
\* confluence_get_page_with_attachments) the listing and the download loop.
IdleCall ==
  [pc |-> "Idle", tool |-> "none", args |-> None, currentPage |-> None, put |-> None,
   result |-> None, error |-> None, requests |-> << >>, responses |-> << >>,
   prior |-> 0, attach |-> None]

Init ==
  /\ remote = [p \in {PageId} |-> [version |-> 1, title |-> OldTitle, body |-> BodyA]]
  /\ enforce \in BOOLEAN
  /\ calls = [c \in Calls |-> IdleCall]
  /\ probe = None
  /\ job = None

\* ------------------------------------------------ the tool-call handler
\* The three validateInput calls made on pageId, title and content, by the
\* dispatcher first and by handleConfluencePatchUpdate again: the first
\* that throws ends the call.
ValidationThrows(args) ==
  \/ validateInput(Arg(args, "pageId")).threw
  \/ validateInput(Arg(args, "title")).threw
  \/ validateInput(Arg(args, "content")).threw

\* The parameters handleConfluencePatchUpdate receives from the dispatcher:
\* originalVersion defaults to null when the argument is undefined, and
\* forceUpdate is args.forceUpdate || false.
OriginalVersionParam(args) ==
  IF Arg(args, "originalVersion") = Undefined
    THEN Null ELSE Arg(args, "originalVersion")

ForceUpdateParam(args) ==
  IF Truthy(Arg(args, "forceUpdate")) THEN Arg(args, "forceUpdate") ELSE Bool(FALSE)

sanitizedPageId(args) == validateInput(args.pageId).value
sanitizedTitle(args) == validateInput(args.title).value
\* Mutant: the content is used as supplied.
sanitizedNewContent_AsSupplied(args) == args.content.chars

sanitizedNewContent(args) == validateInput(args.content).value

\* `throw new Error(...)`: the invocation ends with an error and no result.
Throw(call, kind) == [call EXCEPT !.pc = "Error", !.error = kind, !.result = None]

\* case 'confluence_patch_update' of the CallTool handler up to the first
\* await: validation, then the GET of handleConfluenceGetPage is issued.
Dispatch(call, args) ==
  IF ValidationThrows(args)
    THEN Throw([call EXCEPT !.args = args], "validation")
    ELSE [call EXCEPT !.pc = "Start", !.args = args,
                      !.requests = Append(@, "GET")]

\* case 'confluence_update_page': the same validation, then
\* handleConfluenceUpdatePage issues the GET of handleConfluenceGetPage.
DispatchUpdatePage(call, args) ==
  IF ValidationThrows(args)
    THEN Throw([call EXCEPT !.args = args], "validation")
    ELSE [call EXCEPT !.pc = "Start", !.args = args,
                      !.requests = Append(@, "GET")]

\* case 'confluence_search': args.cql is validated, then
\* handleConfluenceSearch sends the search.
DispatchSearch(call, args) ==
  IF validateInput(Arg(args, "cql")).threw
    THEN Throw([call EXCEPT !.args = args], "validation")
    ELSE [call EXCEPT !.pc = "Searching", !.args = args,
                      !.requests = Append(@, "search")]

\* case 'confluence_get_page': args.pageId is validated, then
\* handleConfluenceGetPage sends its GET.
DispatchGetPage(call, args) ==
  IF validateInput(Arg(args, "pageId")).threw
    THEN Throw([call EXCEPT !.args = args], "validation")
    ELSE [call EXCEPT !.pc = "Start", !.args = args,
                      !.requests = Append(@, "GET")]

\* The body of the POST of handleConfluenceCreatePage; id is the id the
\* store gives the page once it has taken the POST.
CreateBody(args) ==
  [id |-> << >>,
   title |-> validateInput(args.title).value,
   space |-> validateInput(args.space_key).value,
   body |-> validateInput(args.content).value]

\* case 'confluence_create_page': space_key, title and content are
\* validated, then handleConfluenceCreatePage sends its POST.
DispatchCreatePage(call, args) ==
  IF \/ validateInput(Arg(args, "space_key")).threw
     \/ validateInput(Arg(args, "title")).threw
     \/ validateInput(Arg(args, "content")).threw
    THEN Throw([call EXCEPT !.args = args], "validation")
    ELSE [call EXCEPT !.pc = "Creating", !.args = args,
                      !.put = CreateBody(args),
                      !.requests = Append(@, "POST")]

\* case 'confluence_get_attachments': args.pageId is validated, then
\* handleConfluenceGetAttachments sends the GET of the listing.
DispatchGetAttachments(call, args) ==
  IF validateInput(Arg(args, "pageId")).threw
    THEN Throw([call EXCEPT !.args = args], "validation")
    ELSE [call EXCEPT !.pc = "Listing", !.args = args,
                      !.requests = Append(@, "attachments")]

\* case 'confluence_download_attachment': attachmentId and filename are
\* validated, then handleConfluenceDownloadAttachment sends its GET.
DispatchDownloadAttachment(call, args) ==
  IF \/ validateInput(Arg(args, "attachmentId")).threw
     \/ validateInput(Arg(args, "filename")).threw
    THEN Throw([call EXCEPT !.args = args], "validation")
    ELSE [call EXCEPT !.pc = "Downloading", !.args = args,
                      !.requests = Append(@, "download")]

\* The download loop of handleConfluenceGetPageWithAttachments before it
\* starts: the flag as the handler receives it
\* (`args.downloadAttachments || false`), no listing yet, and per listed
\* attachment gone through the outcome, the ids asked for and the downloads
\* pushed.
AttachStart(args) ==
  [downloadAttachments |-> Truthy(Arg(args, "downloadAttachments")),
   attachments |-> None, outcomes |-> << >>, downloads |-> << >>,
   downloadedAttachments |-> << >>]

\* case 'confluence_get_page_with_attachments': args.pageId is validated,
\* then the handler sends the GET of the page.
DispatchGetPageWithAttachments(call, args) ==
  IF validateInput(Arg(args, "pageId")).threw
    THEN Throw([call EXCEPT !.args = args, !.attach = AttachStart(args)],
               "validation")
    ELSE [call EXCEPT !.pc = "Start", !.args = args,
                      !.attach = AttachStart(args),
                      !.requests = Append(@, "GET")]

\* The switch on the tool name; the default case throws `Unknown tool`.
DispatchTool(call, name, args) ==
  LET named == [call EXCEPT !.tool = name]
  IN CASE name = Search -> DispatchSearch(named, args)
       [] name = GetPage -> DispatchGetPage(named, args)
       [] name = CreatePage -> DispatchCreatePage(named, args)
       [] name = UpdatePage -> DispatchUpdatePage(named, args)
       [] name = PatchUpdate -> Dispatch(named, args)
       [] name = GetAttachments -> DispatchGetAttachments(named, args)
       [] name = DownloadAttachment -> DispatchDownloadAttachment(named, args)
       [] name = GetPageWithAttachments ->
            DispatchGetPageWithAttachments(named, args)
       [] OTHER -> Throw([named EXCEPT !.args = args], "unknown-tool")

CallTool(c, request) ==
  /\ calls[c].pc = "Idle"
  /\ calls' = [calls EXCEPT ![c] = DispatchTool(@, request.name, request.arguments)]
  /\ UNCHANGED <<job, remote, enforce, probe>>

\* Mutant: a failed GET is caught and the call returns as if nothing had to
\* be done.
GetPageResponse_Swallowed(call, ok, page) ==
  LET got == [call EXCEPT !.responses = Append(@, IF ok THEN "ok" ELSE "failed")]
  IN IF ~ok THEN [got EXCEPT !.pc = "NoChangesNeeded"]
     ELSE [got EXCEPT !.pc = "Fetched", !.currentPage = page]

\* handleConfluenceGetPage after its fetch settles: a failed GET throws, a
\* good one hands the page to handleConfluencePatchUpdate.
GetPageResponse(call, ok, page) ==
  LET got == [call EXCEPT !.responses = Append(@, IF ok THEN "ok" ELSE "failed")]
  IN IF ~ok THEN Throw(got, "remote")
     ELSE [got EXCEPT !.pc = "Fetched", !.currentPage = page]

\* Mutant: the page is locked from a call's GET to the end of that call.
CanFetch_Locked(c) ==
  /\ calls[c].pc = "Start"
  /\ \A d \in Calls \ {c} : calls[d].pc \notin {"Fetched", "Writing"}

\* A call that has sent its GET waits for nothing but the answer: the handler
\* acquires nothing before the request and consults no other call.
CanFetch(c) == calls[c].pc = "Start"

\* What the caller of handleConfluenceGetPage does with the page before its
\* next await: the dispatcher (confluence_get_page) returns it,
\* handleConfluenceGetPageWithAttachments sends the GET of the listing, the
\* two update handlers go on in steps of their own.
AfterGetPage(call) ==
  IF call.pc # "Fetched" THEN call
  ELSE IF call.tool = GetPage
    THEN [call EXCEPT !.pc = "Returned", !.result = call.currentPage]
  ELSE IF call.tool = GetPageWithAttachments
    THEN [call EXCEPT !.pc = "Listing", !.requests = Append(@, "attachments")]
  ELSE call

\* The GET is answered with the page as it is now.
FetchOk(c) ==
  /\ CanFetch(c)
  /\ sanitizedPageId(calls[c].args) \in DOMAIN remote
  /\ calls' = [calls EXCEPT ![c] =
       AfterGetPage(GetPageResponse(@, TRUE, remote[sanitizedPageId(calls[c].args)]))]
  /\ UNCHANGED <<job, remote, enforce, probe>>

\* The GET fails (network error or !response.ok).
FetchFail(c) ==
  /\ calls[c].pc = "Start"
  /\ calls' = [calls EXCEPT ![c] = GetPageResponse(@, FALSE, None)]
  /\ UNCHANGED <<job, remote, enforce, probe>>

\* Mutant: the baseline is tested for presence (not null, not undefined)
\* rather than for truthiness.
ConflictBranch_PresenceTest(originalVersion, currentVersion, forceUpdate) ==
  /\ originalVersion.kind \notin {"undefined", "null"}
  /\ originalVersion # Num(currentVersion)
  /\ ~Truthy(forceUpdate)

\* Mutant: the test without its `originalVersion &&` guard.
ConflictBranch_Unguarded(originalVersion, currentVersion, forceUpdate) ==
  /\ originalVersion # Num(currentVersion)
  /\ ~Truthy(forceUpdate)

\* The test `originalVersion && originalVersion !== currentVersion && !forceUpdate`.
ConflictBranch(originalVersion, currentVersion, forceUpdate) ==
  /\ Truthy(originalVersion)
  /\ originalVersion # Num(currentVersion)
  /\ ~Truthy(forceUpdate)

\* Mutant: the PUT carries the content as supplied.
PutBody_Untrimmed(args, currentVersion) ==
  [id |-> sanitizedPageId(args), title |-> sanitizedTitle(args),
   version |-> currentVersion + 1, body |-> args.content.chars]

\* Mutant: the PUT declares the caller's baseline plus one.
PutBody_FromBaseline(args, currentVersion) ==
  [id |-> validateInput(args.pageId).value,
   title |-> validateInput(args.title).value,
   version |-> IF args.originalVersion.kind = "number"
                 THEN args.originalVersion.num + 1
                 ELSE currentVersion + 1,
   body |-> validateInput(args.content).value]

\* The body of the PUT.
PutBody(args, currentVersion) ==
  [id |-> sanitizedPageId(args), title |-> sanitizedTitle(args),
   version |-> currentVersion + 1, body |-> sanitizedNewContent(args)]

NoChangesResult(currentPage) ==
  [updateStatus |-> "no-changes", version |-> currentPage.version]

ConflictResult(originalVersion, currentPage, ourChanges) ==
  [updateStatus |-> "conflict-detected",
   version |-> currentPage.version,
   conflictDetails |-> [originalVersion |-> originalVersion,
                        currentVersion |-> currentPage.version,
                        ourChanges |-> ourChanges.changesSummary,
                        requiresPermission |-> TRUE]]

\* Mutant: a changed title counts as a change.
Decision_TitleCounts(args, currentPage) ==
  LET originalVersion == OriginalVersionParam(args)
      changes == calculateContentDiff(currentPage.body, sanitizedNewContent(args))
      changed == changes.hasChanges \/ sanitizedTitle(args) # currentPage.title
  IN IF ConflictBranch(originalVersion, currentPage.version, ForceUpdateParam(args))
       THEN IF ~changed
              THEN [pc |-> "NoChangesNeeded", put |-> None,
                    result |-> NoChangesResult(currentPage)]
              ELSE [pc |-> "ConflictDetected", put |-> None,
                    result |-> ConflictResult(originalVersion, currentPage, changes)]
     ELSE IF ~changed
       THEN [pc |-> "NoChangesNeeded", put |-> None,
             result |-> NoChangesResult(currentPage)]
     ELSE [pc |-> "Writing", put |-> PutBody(args, currentPage.version),
           result |-> None]

\* Mutant: the conflict branch falls through to the PUT.
Decision_WriteOnConflict(args, currentPage) ==
  LET changes == calculateContentDiff(currentPage.body, sanitizedNewContent(args))
  IN IF ~changes.hasChanges
       THEN [pc |-> "NoChangesNeeded", put |-> None,
             result |-> NoChangesResult(currentPage)]
     ELSE [pc |-> "Writing", put |-> PutBody(args, currentPage.version),
           result |-> None]

\* Mutant: the conflict branch reports the conflict without looking at the
\* diff first.
Decision_ConflictFirst(args, currentPage) ==
  LET originalVersion == OriginalVersionParam(args)
      changes == calculateContentDiff(currentPage.body, sanitizedNewContent(args))
  IN IF ConflictBranch(originalVersion, currentPage.version, ForceUpdateParam(args))
       THEN [pc |-> "ConflictDetected", put |-> None,
             result |-> ConflictResult(originalVersion, currentPage, changes)]
     ELSE IF ~changes.hasChanges
       THEN [pc |-> "NoChangesNeeded", put |-> None,
             result |-> NoChangesResult(currentPage)]
     ELSE [pc |-> "Writing", put |-> PutBody(args, currentPage.version),
           result |-> None]

\* What handleConfluencePatchUpdate does with the fetched page, up to its
\* return or to the PUT it issues.
Decision(args, currentPage) ==
  LET originalVersion == OriginalVersionParam(args)
      forceUpdate == ForceUpdateParam(args)
      currentVersion == currentPage.version
      currentContent == currentPage.body
      changes == calculateContentDiff(currentContent, sanitizedNewContent(args))
  IN IF ConflictBranch(originalVersion, currentVersion, forceUpdate)
       THEN IF ~changes.hasChanges
              THEN [pc |-> "NoChangesNeeded", put |-> None,
                    result |-> NoChangesResult(currentPage)]
              ELSE [pc |-> "ConflictDetected", put |-> None,
                    result |-> ConflictResult(originalVersion, currentPage, changes)]
     ELSE IF ~changes.hasChanges
       THEN [pc |-> "NoChangesNeeded", put |-> None,
             result |-> NoChangesResult(currentPage)]
     ELSE [pc |-> "Writing", put |-> PutBody(args, currentVersion),
           result |-> None]

\* Mutant: the fetched page is kept in one module-level variable that every
\* call overwrites, so a call decides on the page fetched last by anyone.
Decide_SharedPage(c) ==
  /\ calls[c].pc = "Fetched"
  /\ calls[c].tool = PatchUpdate
  /\ LET others == {o \in Calls \ {c} : calls[o].currentPage # None}
         page == IF others = {} THEN calls[c].currentPage
                 ELSE calls[CHOOSE o \in others : TRUE].currentPage
         d == Decision(calls[c].args, page)
     IN calls' = [calls EXCEPT ![c] =
          [@ EXCEPT !.pc = d.pc, !.put = d.put, !.result = d.result,
                    !.requests = IF d.put = None THEN @ ELSE Append(@, "PUT")]]
  /\ UNCHANGED <<job, remote, enforce, probe>>

\* handleConfluencePatchUpdate between the answer to its GET and its return
\* or its PUT.
Decide(c) ==
  /\ calls[c].pc = "Fetched"
  /\ calls[c].tool = PatchUpdate
  /\ LET d == Decision(calls[c].args, calls[c].currentPage)
     IN calls' = [calls EXCEPT ![c] =
          [@ EXCEPT !.pc = d.pc, !.put = d.put, !.result = d.result,
                    !.requests = IF d.put = None THEN @ ELSE Append(@, "PUT")]]
  /\ UNCHANGED <<job, remote, enforce, probe>>

\* Mutant: the plain update declares the version it fetched.
UpdatePageBody_SameVersion(args, currentVersion) ==
  [id |-> sanitizedPageId(args), title |-> sanitizedTitle(args),
   version |-> currentVersion, body |-> sanitizedNewContent(args)]

\* The body of the PUT of handleConfluenceUpdatePage.
UpdatePageBody(args, currentVersion) ==
  [id |-> sanitizedPageId(args), title |-> sanitizedTitle(args),
   version |-> currentVersion + 1, body |-> sanitizedNewContent(args)]

\* Mutant: the plain update returns early when the content is already there.
UpdateProceed_SkipSame(c) ==
  /\ calls[c].pc = "Fetched"
  /\ calls[c].tool = UpdatePage
  /\ calls' = [calls EXCEPT ![c] =
       IF sanitizedNewContent(calls[c].args) = calls[c].currentPage.body
         THEN [@ EXCEPT !.pc = "NoChangesNeeded",
                        !.result = NoChangesResult(calls[c].currentPage)]
         ELSE [@ EXCEPT !.pc = "Writing",
                        !.put = UpdatePageBody(calls[c].args, calls[c].currentPage.version),
                        !.requests = Append(@, "PUT")]]
  /\ UNCHANGED <<job, remote, enforce, probe>>

\* handleConfluenceUpdatePage with the fetched page: it issues its PUT
\* whatever the page holds.
UpdateProceed(c) ==
  /\ calls[c].pc = "Fetched"
  /\ calls[c].tool = UpdatePage
  /\ calls' = [calls EXCEPT ![c] =
       [@ EXCEPT !.pc = "Writing",
                 !.put = UpdatePageBody(calls[c].args, calls[c].currentPage.version),
                 !.requests = Append(@, "PUT")]]
  /\ UNCHANGED <<job, remote, enforce, probe>>

\* Mutant: patchInfo.originalVersion reports the caller's baseline.
SuccessResult_FromBaseline(args, currentPage, response) ==
  LET changes == calculateContentDiff(currentPage.body, validateInput(args.content).value)
  IN [updateStatus |-> "success",
      version |-> response.version,
      changes |-> changes.changesSummary,
      patchInfo |-> [addedLines |-> changes.addedLines,
                     removedLines |-> changes.removedLines,
                     originalVersion |-> IF args.originalVersion.kind = "number"
                                           THEN args.originalVersion.num
                                           ELSE currentPage.version,
                     newVersion |-> currentPage.version + 1]]

\* The value handleConfluencePatchUpdate returns after an accepted PUT.
SuccessResult(args, currentPage, response) ==
  LET changes == calculateContentDiff(currentPage.body, sanitizedNewContent(args))
  IN [updateStatus |-> "success",
      version |-> response.version,
      changes |-> changes.changesSummary,
      patchInfo |-> [addedLines |-> changes.addedLines,
                     removedLines |-> changes.removedLines,
                     originalVersion |-> currentPage.version,
                     newVersion |-> currentPage.version + 1]]

\* Mutant: a failed PUT is sent once more before the handler gives up.
PutResponse_Retry(call, ok, response) ==
  LET got == [call EXCEPT !.responses = Append(@, IF ok THEN "ok" ELSE "failed")]
  IN IF ~ok
       THEN IF Len(got.requests) < 3
              THEN [got EXCEPT !.requests = Append(@, "PUT")]
              ELSE Throw(got, "remote")
       ELSE [got EXCEPT !.pc = "Success",
                        !.result = SuccessResult(call.args, call.currentPage, response)]

\* Mutant: the answer to the PUT is not tested with response.ok.
PutResponse_Unchecked(call, ok, response) ==
  [call EXCEPT !.responses = Append(@, IF ok THEN "ok" ELSE "failed"),
               !.pc = "Success",
               !.result = SuccessResult(call.args, call.currentPage, response)]

\* handleConfluencePatchUpdate after its PUT settles: a failed PUT throws, an
\* accepted one returns the success result.
PutResponse(call, ok, response) ==
  LET got == [call EXCEPT !.responses = Append(@, IF ok THEN "ok" ELSE "failed")]
  IN IF ~ok THEN Throw(got, "remote")
     ELSE [got EXCEPT !.pc = "Success",
                      !.result = SuccessResult(call.args, call.currentPage, response)]

\* handleConfluenceUpdatePage after its PUT settles: a failed PUT throws, an
\* accepted one returns the page the store answered with.
UpdatePageResponse(call, ok, response) ==
  LET got == [call EXCEPT !.responses = Append(@, IF ok THEN "ok" ELSE "failed")]
  IN IF ~ok THEN Throw(got, "remote")
     ELSE [got EXCEPT !.pc = "Success", !.result = response]

\* The handler that awaits the PUT.
HandlerPutResponse(call, ok, response) ==
  IF call.tool = UpdatePage
    THEN UpdatePageResponse(call, ok, response)
    ELSE PutResponse(call, ok, response)

\* A handler returns `result` to the dispatcher.
Return(call, result) == [call EXCEPT !.pc = "Returned", !.result = result]

\* handleConfluenceSearch after its fetch settles: a failed search throws, a
\* good one returns the answer as it came.
SearchResponse(call, ok, answer) ==
  LET got == [call EXCEPT !.responses = Append(@, IF ok THEN "ok" ELSE "failed")]
  IN IF ~ok THEN Throw(got, "remote") ELSE Return(got, answer)

\* handleConfluenceCreatePage after its POST settles: a failed POST throws,
\* an accepted one returns the page the store answered with.
CreatePageResponse(call, ok, response) ==
  LET got == [call EXCEPT !.responses = Append(@, IF ok THEN "ok" ELSE "failed")]
  IN IF ~ok THEN Throw(got, "remote") ELSE Return(got, response)

\* What handleConfluenceGetPageWithAttachments returns: the page with the
\* listing, and with the downloads when the download loop ran.
AttachResult(call, looped) ==
  IF looped
    THEN [page |-> call.currentPage, attachments |-> call.attach.attachments,
          downloadedAttachments |-> call.attach.downloadedAttachments]
    ELSE [page |-> call.currentPage, attachments |-> call.attach.attachments,
          downloadedAttachments |-> Undefined]

\* Mutant: the loop has no try/catch, the first failure ends the call.
AttachmentFailed_Throws(call, outcome) ==
  Throw([call EXCEPT !.attach.outcomes = Append(@, outcome)], "remote")

\* The catch of the download loop: the failure is logged and the loop goes
\* on with the next attachment.
AttachmentFailed(call, outcome) ==
  [call EXCEPT !.attach.outcomes = Append(@, outcome)]

\* What handleConfluenceDownloadAttachment returns for an attachment: the
\* trimmed file name and the attachment's data (named by its id).
Downloaded(attachmentId, filename) ==
  [filename |-> Trim(filename), data |-> Trim(attachmentId)]

\* The download loop from its next attachment on, up to the next await:
\* when no attachment is left the handler returns; an attachment whose id or
\* title validateInput rejects throws before any request and is skipped;
\* otherwise the GET of the download goes out.
RECURSIVE DownloadLoop(_)
DownloadLoop(call) ==
  IF call.pc = "Error" THEN call
  ELSE IF Len(call.attach.outcomes) = Len(call.attach.attachments)
    THEN Return(call, AttachResult(call, TRUE))
  ELSE LET attachment == call.attach.attachments[Len(call.attach.outcomes) + 1]
       IN IF \/ validateInput(Str(attachment.id)).threw
             \/ validateInput(Str(attachment.title)).threw
            THEN DownloadLoop(AttachmentFailed(call, "invalid"))
            ELSE [call EXCEPT !.pc = "Downloading",
                              !.requests = Append(@, "download"),
                              !.attach.downloads = Append(@, Trim(attachment.id))]

\* handleConfluenceGetAttachments after its fetch settles.  A failed GET
\* throws.  The tool confluence_get_attachments returns a good answer as it
\* came; handleConfluenceGetPageWithAttachments starts the download loop
\* when downloadAttachments is set and the listing is not empty, and
\* returns otherwise.
ListResponse(call, ok, listing) ==
  LET got == [call EXCEPT !.responses = Append(@, IF ok THEN "ok" ELSE "failed")]
  IN IF ~ok THEN Throw(got, "remote")
     ELSE IF call.tool = GetAttachments THEN Return(got, [results |-> listing])
     ELSE LET listed == [got EXCEPT !.attach.attachments = listing]
          IN IF listed.attach.downloadAttachments /\ Len(listing) > 0
               THEN DownloadLoop(listed)
               ELSE Return(listed, AttachResult(listed, FALSE))

\* handleConfluenceDownloadAttachment after its fetch settles.  Called by
\* the dispatcher (confluence_download_attachment) it throws on a failed GET
\* and returns the file otherwise; called by the download loop, the file is
\* pushed or the failure caught, and the loop goes on.
DownloadResponse(call, ok) ==
  LET got == [call EXCEPT !.responses = Append(@, IF ok THEN "ok" ELSE "failed")]
  IN IF call.tool = DownloadAttachment
       THEN IF ~ok THEN Throw(got, "remote")
            ELSE Return(got, Downloaded(call.args.attachmentId.chars,
                                        call.args.filename.chars))
     ELSE IF ~ok THEN DownloadLoop(AttachmentFailed(got, "failed"))
     ELSE LET attachment == call.attach.attachments[Len(call.attach.outcomes) + 1]
          IN DownloadLoop([got EXCEPT
               !.attach.outcomes = Append(@, "ok"),
               !.attach.downloadedAttachments =
                  Append(@, Downloaded(attachment.id, attachment.title))])

\* JSON.stringify(result, null, 2): the text of the value, keys kept.
JSONStringify(value) == [json |-> value]

\* Mutant: the catch turns the error into tool content instead of rethrowing.
ToolResponse_ErrorAsContent(call) ==
  IF call.pc = "Error"
    THEN [isError |-> FALSE,
          content |-> <<[type |-> "text", text |-> JSONStringify(call.error)]>>]
  ELSE IF call.result # None
    THEN [isError |-> FALSE,
          content |-> <<[type |-> "text", text |-> JSONStringify(call.result)]>>]
  ELSE None

\* What the CallTool handler hands back for a call: the handler's return
\* value wrapped as text content, or the error rethrown by the catch; nothing
\* while the call is still waiting.
ToolResponse(call) ==
  IF call.pc = "Error"
    THEN [isError |-> TRUE, error |-> call.error, content |-> << >>]
  ELSE IF call.result # None
    THEN [isError |-> FALSE,
          content |-> <<[type |-> "text", text |-> JSONStringify(call.result)]>>]
  ELSE None

\* ------------------------------------------------------ the remote store
\* Whether the store takes a PUT declaring `declared` for a page at `version`.
Accepts(declared, version) == ~enforce \/ declared = version + 1

\* The page after an accepted write: the store advances the version by one.
Written(page, title, body) ==
  [version |-> page.version + 1, title |-> title, body |-> body]

\* The page the store answers a PUT it has taken with.
PutAnswer(call) ==
  [version |-> call.prior + 1, title |-> call.put.title, body |-> call.put.body]

\* The store takes the PUT: the page changes.  The handler is still waiting
\* for the answer (`await fetch`, `await response.json()`).
WriteCommit(c) ==
  /\ calls[c].pc = "Writing"
  /\ calls[c].prior = 0
  /\ LET put == calls[c].put
         page == remote[put.id]
     IN /\ page.version < MaxVersion
        /\ Accepts(put.version, page.version)
        /\ remote' = [remote EXCEPT ![put.id] = Written(page, put.title, put.body)]
        /\ calls' = [calls EXCEPT ![c].prior = page.version]
  /\ UNCHANGED <<job, enforce, probe>>

\* The answer to a PUT the store has taken reaches the handler.
WriteOk(c) ==
  /\ calls[c].pc = "Writing"
  /\ calls[c].prior # 0
  /\ calls' = [calls EXCEPT ![c] = HandlerPutResponse(@, TRUE, PutAnswer(@))]
  /\ UNCHANGED <<job, remote, enforce, probe>>

\* The answer to a PUT the store has taken does not reach the handler (the
\* connection is lost, or the body of the answer is not JSON): fetch or
\* response.json() rejects and the handler throws.
WriteLost(c) ==
  /\ calls[c].pc = "Writing"
  /\ calls[c].prior # 0
  /\ calls' = [calls EXCEPT ![c] = Throw([@ EXCEPT !.responses = Append(@, "failed")],
                                          "remote")]
  /\ UNCHANGED <<job, remote, enforce, probe>>

\* The store refuses the PUT because the declared version is stale (409).
WriteRejected(c) ==
  /\ calls[c].pc = "Writing"
  /\ calls[c].prior = 0
  /\ ~Accepts(calls[c].put.version, remote[calls[c].put.id].version)
  /\ calls' = [calls EXCEPT ![c] = HandlerPutResponse(@, FALSE, remote[calls[c].put.id])]
  /\ UNCHANGED <<job, remote, enforce, probe>>

\* The PUT fails for another reason (network, auth) and changes nothing.
WriteFail(c) ==
  /\ calls[c].pc = "Writing"
  /\ calls[c].prior = 0
  /\ calls' = [calls EXCEPT ![c] = HandlerPutResponse(@, FALSE, remote[calls[c].put.id])]
  /\ UNCHANGED <<job, remote, enforce, probe>>

\* The ids the store gives to new pages, in the order it hands them out.
NewPageIds == <<(<<"5">>), (<<"6">>)>>
FreshIds == {i \in DOMAIN NewPageIds : NewPageIds[i] \notin DOMAIN remote}

\* A page just created: its version is 1.
Created(post) == [version |-> 1, title |-> post.title, body |-> post.body]

\* The page the store answers a POST it has taken with.
PostAnswer(call) ==
  [id |-> call.put.id, version |-> 1, title |-> call.put.title,
   body |-> call.put.body]

\* The store takes the POST: a page is added under a new id.  The handler
\* is still waiting for the answer.
CreateCommit(c) ==
  /\ calls[c].pc = "Creating"
  /\ calls[c].put.id = << >>
  /\ FreshIds # {}
  /\ LET id == NewPageIds[CHOOSE i \in FreshIds : \A k \in FreshIds : i <= k]
     IN /\ remote' = [p \in DOMAIN remote \cup {id} |->
                        IF p = id THEN Created(calls[c].put) ELSE remote[p]]
        /\ calls' = [calls EXCEPT ![c].put.id = id]
  /\ UNCHANGED <<job, enforce, probe>>

\* The answer to a POST the store has taken reaches the handler.
CreateOk(c) ==
  /\ calls[c].pc = "Creating"
  /\ calls[c].put.id # << >>
  /\ calls' = [calls EXCEPT ![c] = CreatePageResponse(@, TRUE, PostAnswer(@))]
  /\ UNCHANGED <<job, remote, enforce, probe>>

\* The POST fails: it is refused or never arrives (the store has not taken
\* it), or its answer is lost (the store has).
CreateFail(c) ==
  /\ calls[c].pc = "Creating"
  /\ calls' = [calls EXCEPT ![c] = CreatePageResponse(@, FALSE, None)]
  /\ UNCHANGED <<job, remote, enforce, probe>>

\* The ids of the pages the store answers a search with.
SearchAnswer == [results |-> DOMAIN remote]

\* The search is answered.
SearchOk(c) ==
  /\ calls[c].pc = "Searching"
  /\ calls' = [calls EXCEPT ![c] = SearchResponse(@, TRUE, SearchAnswer)]
  /\ UNCHANGED <<job, remote, enforce, probe>>

\* The search fails.
SearchFail(c) ==
  /\ calls[c].pc = "Searching"
  /\ calls' = [calls EXCEPT ![c] = SearchResponse(@, FALSE, None)]
  /\ UNCHANGED <<job, remote, enforce, probe>>

\* The GET of the attachment listing is answered with `listing`.
ListOk(c, listing) ==
  /\ calls[c].pc = "Listing"
  /\ calls' = [calls EXCEPT ![c] = ListResponse(@, TRUE, listing)]
  /\ UNCHANGED <<job, remote, enforce, probe>>

\* The GET of the attachment listing fails.
ListFail(c) ==
  /\ calls[c].pc = "Listing"
  /\ calls' = [calls EXCEPT ![c] = ListResponse(@, FALSE, << >>)]
  /\ UNCHANGED <<job, remote, enforce, probe>>

\* The download of an attachment is answered.
DownloadOk(c) ==
  /\ calls[c].pc = "Downloading"
  /\ calls' = [calls EXCEPT ![c] = DownloadResponse(@, TRUE)]
  /\ UNCHANGED <<job, remote, enforce, probe>>

\* The download of an attachment fails.
DownloadFail(c) ==
  /\ calls[c].pc = "Downloading"
  /\ calls' = [calls EXCEPT ![c] = DownloadResponse(@, FALSE)]
  /\ UNCHANGED <<job, remote, enforce, probe>>

\* Another actor edits page p.
ExternalWriteOn(p, body) ==
  /\ remote[p].version < MaxVersion
  /\ remote' = [remote EXCEPT ![p] = Written(@, @.title, body)]
  /\ UNCHANGED <<job, enforce, calls, probe>>

\* Another actor edits the page.
ExternalWrite(body) == ExternalWriteOn(PageId, body)

\* The listings the store answers with in the runs of all tools.
FewListings == {<< >>, <<PlainAttachment>>}

Next ==
  \/ \E c \in Calls : \E request \in RequestsOf(c) : CallTool(c, request)
  \/ \E c \in Calls : FetchOk(c)
  \/ \E c \in Calls : FetchFail(c)
  \/ \E c \in Calls : Decide(c)
  \/ \E c \in Calls : UpdateProceed(c)
  \/ \E c \in Calls : WriteCommit(c)
  \/ \E c \in Calls : WriteOk(c)
  \/ \E c \in Calls : WriteLost(c)
  \/ \E c \in Calls : WriteRejected(c)
  \/ \E c \in Calls : WriteFail(c)
  \/ \E c \in Calls : CreateCommit(c)
  \/ \E c \in Calls : CreateOk(c)
  \/ \E c \in Calls : CreateFail(c)
  \/ \E c \in Calls : SearchOk(c)
  \/ \E c \in Calls : SearchFail(c)
  \/ \E c \in Calls : \E listing \in FewListings : ListOk(c, listing)
  \/ \E c \in Calls : ListFail(c)
  \/ \E c \in Calls : DownloadOk(c)
  \/ \E c \in Calls : DownloadFail(c)
  \/ \E body \in ExternalBodies : ExternalWrite(body)

Spec == Init /\ [][Next]_vars

\* ------------------------------------------------------------ vocabulary
Fetches(c) == Cardinality({i \in DOMAIN calls[c].requests : calls[c].requests[i] = "GET"})
Writes(c) == Cardinality({i \in DOMAIN calls[c].requests : calls[c].requests[i] = "PUT"})

IsPatch(c) == calls[c].tool = PatchUpdate

\* The patch-update invocation got its page and took its decision.
Decided(c) ==
  /\ IsPatch(c)
  /\ \/ calls[c].pc \in {"NoChangesNeeded", "ConflictDetected", "Writing", "Success"}
     \/ (calls[c].pc = "Error" /\ calls[c].put # None)

\* The caller's arguments, as the claims speak of them.
BaselineSupplied(c) == Arg(calls[c].args, "originalVersion") # Undefined
ForceRequested(c) == Truthy(Arg(calls[c].args, "forceUpdate"))
FetchedVersion(c) == calls[c].currentPage.version
BaselineDiffers(c) ==
  /\ Arg(calls[c].args, "originalVersion").kind = "number"
  /\ calls[c].args.originalVersion.num # FetchedVersion(c)
\* The body as supplied, and as the handler uses it.
SuppliedBody(c) == calls[c].args.content.chars
BodyDiffers(c) == SuppliedBody(c) # calls[c].currentPage.body
TrimmedBodyDiffers(c) == Trim(SuppliedBody(c)) # calls[c].currentPage.body
\* The invocation went on to write: it issued its PUT.
WentToWrite(c) ==
  /\ calls[c].pc \in {"Writing", "Success", "Error"}
  /\ Writes(c) = 1
  /\ calls[c].put # None

\* ------------------------------------------------------------- the claims

\* C1 (as stated): in every call with originalVersion supplied and
\* forceUpdate false, a PUT is issued only if the fetched version equals
\* originalVersion.
C1_WriteOnlyIfBaselineCurrent ==
  \A c \in Calls :
    (/\ calls[c].currentPage # None
     /\ BaselineSupplied(c)
     /\ ~ForceRequested(c)
     /\ Writes(c) > 0)
    => calls[c].args.originalVersion = Num(FetchedVersion(c))

\* C2 (as stated): a baseline that is any integer other than the fetched
\* version, forceUpdate false and a body differing from the current body give
\* conflict-detected, with conflictDetails naming the caller's baseline and
\* the fetched version, and no PUT.
C2_StaleBaselineIsConflict ==
  \A c \in Calls :
    (Decided(c) /\ BaselineDiffers(c) /\ ~ForceRequested(c) /\ BodyDiffers(c))
    => /\ calls[c].pc = "ConflictDetected"
       /\ calls[c].result.conflictDetails.originalVersion
            = calls[c].args.originalVersion
       /\ calls[c].result.conflictDetails.currentVersion = FetchedVersion(c)
       /\ Writes(c) = 0

\* C3 (as stated): a call whose body equals the current body returns
\* no-changes and issues no PUT, whatever the baseline and forceUpdate.
C3_SameBodyIsNoChange_AsStated ==
  \A c \in Calls :
    (Decided(c) /\ ~BodyDiffers(c))
    => calls[c].pc = "NoChangesNeeded" /\ Writes(c) = 0

\* C3 (amended): a call whose body, with leading and trailing white space
\* removed, equals the current body returns no-changes and issues no PUT,
\* whatever the baseline and forceUpdate; it is never reported as a conflict.
C3_TrimmedSameBodyIsNoChange ==
  \A c \in Calls :
    (Decided(c) /\ ~TrimmedBodyDiffers(c))
    => /\ calls[c].pc = "NoChangesNeeded"
       /\ calls[c].result.updateStatus = "no-changes"
       /\ Writes(c) = 0

\* C3 witness: a call with a stale non-zero baseline and no force found
\* nothing to change and returned no-changes.
C3_Witness ==
  \E c \in Calls :
    /\ calls[c].pc = "NoChangesNeeded"
    /\ BaselineDiffers(c)
    /\ calls[c].args.originalVersion.num # 0
    /\ ~ForceRequested(c)
    /\ Writes(c) = 0

\* The remote store took the PUT of this call.
PutAccepted(c) == calls[c].prior # 0
\* The store's answer that it took the PUT has reached the call.
AcceptanceReceived(c) == PutAccepted(c) /\ calls[c].responses = <<"ok", "ok">>

\* C4 (as stated): a baseline other than the fetched version, forceUpdate
\* true and a body differing from the current body give exactly one PUT,
\* declaring the fetched version plus one, and success once it is accepted.
C4_ForceWrites_AsStated ==
  \A c \in Calls :
    (Decided(c) /\ BaselineDiffers(c) /\ ForceRequested(c) /\ BodyDiffers(c))
    => /\ WentToWrite(c)
       /\ calls[c].put.version = FetchedVersion(c) + 1
       /\ (AcceptanceReceived(c) => calls[c].pc = "Success")

\* C4 (amended): the same, for a body that still differs from the current
\* body once its leading and trailing white space is removed; the call
\* returns success when the store's answer that it took the write reaches
\* it, and only then.
C4_ForceWrites ==
  \A c \in Calls :
    (Decided(c) /\ BaselineDiffers(c) /\ ForceRequested(c) /\ TrimmedBodyDiffers(c))
    => /\ WentToWrite(c)
       /\ calls[c].put.version = FetchedVersion(c) + 1
       /\ (AcceptanceReceived(c) =>
             calls[c].pc = "Success" /\ calls[c].result.updateStatus = "success")
       /\ (calls[c].pc = "Success" => AcceptanceReceived(c))

\* C4 witness: a forced call with a stale non-zero baseline wrote and
\* returned success.
C4_Witness ==
  \E c \in Calls :
    /\ calls[c].pc = "Success"
    /\ ForceRequested(c)
    /\ BaselineDiffers(c)
    /\ calls[c].args.originalVersion.num \notin {0, FetchedVersion(c)}
    /\ calls[c].args.originalVersion.num < FetchedVersion(c)

\* C5 (as stated): a call without a baseline never returns
\* conflict-detected; it writes once (success when accepted) when the body
\* differs from the current body and returns no-changes without a PUT when
\* it does not.
C5_NoBaselineNoConflict_AsStated ==
  \A c \in Calls :
    (Decided(c) /\ ~BaselineSupplied(c))
    => /\ calls[c].pc # "ConflictDetected"
       /\ (BodyDiffers(c) =>
             WentToWrite(c) /\ (AcceptanceReceived(c) => calls[c].pc = "Success"))
       /\ (~BodyDiffers(c) => calls[c].pc = "NoChangesNeeded" /\ Writes(c) = 0)

\* C5 (amended): the same, the body being compared after its leading and
\* trailing white space is removed; success is returned when the store's
\* answer that it took the write reaches the call.
C5_NoBaselineNoConflict ==
  \A c \in Calls :
    (Decided(c) /\ ~BaselineSupplied(c))
    => /\ calls[c].pc # "ConflictDetected"
       /\ (TrimmedBodyDiffers(c) =>
             /\ WentToWrite(c)
             /\ (AcceptanceReceived(c) => calls[c].pc = "Success")
             /\ (calls[c].pc = "Success" => AcceptanceReceived(c)))
       /\ (~TrimmedBodyDiffers(c) =>
             calls[c].pc = "NoChangesNeeded" /\ Writes(c) = 0)

\* C5 witness: a call without a baseline, made after the page had moved on
\* to a later version, wrote and returned success.
C5_Witness ==
  \E c \in Calls :
    /\ calls[c].pc = "Success"
    /\ ~BaselineSupplied(c)
    /\ ~ForceRequested(c)
    /\ FetchedVersion(c) > 1
    /\ Writes(c) = 1

\* C6: on success, patchInfo.newVersion is the fetched version plus one,
\* patchInfo.originalVersion is the fetched version (not the caller's
\* baseline), and the PUT declared the same fetched version plus one.
C6_SuccessVersions ==
  \A c \in Calls :
    (IsPatch(c) /\ calls[c].pc = "Success")
    => /\ calls[c].result.patchInfo.newVersion = FetchedVersion(c) + 1
       /\ calls[c].result.patchInfo.originalVersion = FetchedVersion(c)
       /\ calls[c].put.version = FetchedVersion(c) + 1

\* C6 witness: a forced update whose baseline is not the fetched version
\* returned success.
C6_Witness ==
  \E c \in Calls :
    /\ calls[c].pc = "Success"
    /\ ForceRequested(c)
    /\ BaselineDiffers(c)
    /\ calls[c].args.originalVersion.num # 0
    /\ calls[c].result.patchInfo.originalVersion # calls[c].args.originalVersion.num

\* An argument the tool must refuse: missing, empty or only white space, or
\* holding '<script' or 'javascript:'.
Refusable(v) ==
  \/ v = Undefined
  \/ /\ v.kind = "string"
     /\ \/ \A i \in DOMAIN v.chars : v.chars[i] \in WhiteSpace
        \/ Includes(v.chars, ScriptTag)
        \/ Includes(v.chars, JavascriptUri)

\* C7: a call whose pageId, title or content is refusable fails with a
\* validation error and issues no GET and no PUT.
C7_ValidationBeforeNetwork ==
  \A c \in Calls :
    (/\ IsPatch(c)
     /\ \/ Refusable(calls[c].args.pageId)
        \/ Refusable(calls[c].args.title)
        \/ Refusable(calls[c].args.content))
    => /\ calls[c].pc = "Error"
       /\ calls[c].error = "validation"
       /\ calls[c].requests = << >>
       /\ calls[c].result = None

\* C7 witness: a call with a white-space-only title and another with a
\* script tag in its content were both refused.
C7_Witness ==
  \E c, d \in Calls :
    /\ calls[c].pc = "Error" /\ calls[c].error = "validation"
    /\ calls[c].args.title = Str(<<" ", "\n">>)
    /\ calls[d].pc = "Error" /\ calls[d].error = "validation"
    /\ calls[d].args.content.kind = "string"
    /\ Includes(calls[d].args.content.chars, ScriptTag)

\* C8: a failed GET or PUT ends the call in an error without a result; after
\* a failed GET no PUT is issued; success is returned only after both
\* requests were answered well.
C8_FailuresThrow ==
  \A c \in Calls :
    IsPatch(c) =>
    /\ (\E i \in DOMAIN calls[c].responses : calls[c].responses[i] = "failed")
         => /\ calls[c].pc = "Error"
            /\ calls[c].error = "remote"
            /\ calls[c].result = None
    /\ calls[c].responses = <<"failed">>
         => calls[c].requests = <<"GET">> /\ calls[c].put = None
    /\ calls[c].pc \in {"Success", "NoChangesNeeded", "ConflictDetected"}
         => \A i \in DOMAIN calls[c].responses : calls[c].responses[i] = "ok"

\* C8 witness: the store refused a PUT whose declared version was stale, and
\* the call ended in an error.
C8_Witness ==
  \E c \in Calls :
    /\ IsPatch(c)
    /\ calls[c].pc = "Error"
    /\ calls[c].responses = <<"ok", "failed">>
    /\ enforce
    /\ calls[c].put.version # remote[calls[c].put.id].version + 1

\* C9 (as stated): with a store that checks the declared version, a call
\* with a baseline supplied and forceUpdate false returns success only if the
\* page's version just before its write was accepted equals the baseline.
C9_SuccessMeansBaselineWasCurrent ==
  enforce =>
    \A c \in Calls :
      (calls[c].pc = "Success" /\ BaselineSupplied(c) /\ ~ForceRequested(c))
      => calls[c].args.originalVersion = Num(calls[c].prior)

\* Two different calls that fetched the same version of the same page and
\* each issued a PUT.
Rivals(c, d) ==
  /\ c # d
  /\ WentToWrite(c) /\ WentToWrite(d)
  /\ calls[c].put.id = calls[d].put.id
  /\ FetchedVersion(c) = FetchedVersion(d)

\* C10: with a store that checks the declared version, of two calls that
\* fetched the same version and both write, at most one returns success; the
\* other has ended in an error or can only be refused.
C10_AtMostOneWinner ==
  enforce =>
    \A c, d \in Calls :
      (Rivals(c, d) /\ calls[c].pc = "Success")
      => /\ calls[d].pc # "Success"
         /\ calls[d].pc \in {"Error", "Writing"}
         /\ calls[d].pc = "Writing" =>
              ~Accepts(calls[d].put.version, remote[calls[d].put.id].version)

\* C10 witness: two rivals, one returned success, the other was refused and
\* ended in an error.
C10_Witness ==
  \E c, d \in Calls :
    /\ enforce
    /\ Rivals(c, d)
    /\ calls[c].pc = "Success"
    /\ calls[d].pc = "Error" /\ calls[d].responses = <<"ok", "failed">>

\* C11: the coordinator takes no lock.  A call whose GET is out can be
\* answered whatever stage the other call has reached, and two patch-update
\* calls that fetched the same version and both went on to write declare the
\* same version, the fetched one plus one.
C11_NoLock ==
  \A c, d \in Calls :
    c # d
    => /\ (calls[d].pc = "Start" /\ calls[c].pc \in {"Fetched", "Writing"})
            => CanFetch(d)
       /\ (IsPatch(c) /\ IsPatch(d)
           /\ calls[c].pc = "Writing" /\ calls[d].pc = "Writing"
           /\ FetchedVersion(c) = FetchedVersion(d))
            => /\ calls[c].put.version = FetchedVersion(c) + 1
               /\ calls[d].put.version = calls[c].put.version

\* C11 witness: two patch-update calls fetched the same version, both passed
\* the conflict check and both stand with a PUT declaring the same version.
C11_Witness ==
  \E c, d \in Calls :
    /\ c # d
    /\ IsPatch(c) /\ IsPatch(d)
    /\ calls[c].pc = "Writing" /\ calls[d].pc = "Writing"
    /\ FetchedVersion(c) = FetchedVersion(d)
    /\ BaselineSupplied(c) /\ BaselineSupplied(d)
    /\ ~ForceRequested(c) /\ ~ForceRequested(d)
    /\ calls[c].args.originalVersion = Num(FetchedVersion(c))
    /\ calls[d].args.originalVersion = Num(FetchedVersion(d))
    /\ calls[c].put.version = FetchedVersion(c) + 1
    /\ calls[d].put.version = calls[c].put.version

\* C12: a patch-update call that passed validation sends exactly one GET and
\* at most one PUT; the PUT is sent only after the GET was answered well and
\* is the call's last request; every request is answered at most once and a
\* failed request is never sent again.
C12_OneFetchAtMostOneWrite ==
  \A c \in Calls :
    (IsPatch(c) /\ calls[c].requests # << >>)
    => /\ calls[c].requests \in {<<"GET">>, <<"GET", "PUT">>}
       /\ Fetches(c) = 1 /\ Writes(c) <= 1
       /\ Len(calls[c].responses) <= Len(calls[c].requests)
       /\ Writes(c) = 1 => /\ calls[c].responses # << >>
                           /\ calls[c].responses[1] = "ok"
       /\ (\E i \in DOMAIN calls[c].responses : calls[c].responses[i] = "failed")
            => /\ Len(calls[c].responses) = Len(calls[c].requests)
               /\ calls[c].pc = "Error"
       /\ calls[c].pc \in {"NoChangesNeeded", "ConflictDetected"}
            => calls[c].requests = <<"GET">> /\ calls[c].responses = <<"ok">>
       /\ calls[c].pc = "Success"
            => calls[c].requests = <<"GET", "PUT">> /\ calls[c].responses = <<"ok", "ok">>

\* C12 witness: one patch-update call ended after a failed PUT and another
\* ended on the no-changes branch, each with a single GET.
C12_Witness ==
  \E c, d \in Calls :
    /\ IsPatch(c) /\ calls[c].pc = "Error"
    /\ calls[c].requests = <<"GET", "PUT">> /\ calls[c].responses = <<"ok", "failed">>
    /\ IsPatch(d) /\ calls[d].pc = "NoChangesNeeded"
    /\ calls[d].requests = <<"GET">>

TerminalStates == {"NoChangesNeeded", "ConflictDetected", "Success", "Error"}

\* The steps one patch-update call may take.
PatchStep(before, after) ==
  /\ before.pc = "Idle" => after.pc \in {"Idle", "Start", "Error"}
  /\ before.pc = "Start" => after.pc \in {"Start", "Fetched", "Error"}
  /\ before.pc = "Fetched"
       => after.pc \in {"Fetched", "NoChangesNeeded", "ConflictDetected", "Writing", "Error"}
  /\ before.pc = "Writing" => after.pc \in {"Writing", "Success", "Error"}
  /\ before.pc \in TerminalStates => after = before
  /\ (before.pc # "Writing" /\ after.pc = "Writing")
       => ~ConflictBranch(OriginalVersionParam(before.args),
                          before.currentPage.version,
                          ForceUpdateParam(before.args))

\* C13: a patch-update call goes from Start to Fetched and from there to
\* exactly one of NoChangesNeeded, ConflictDetected or Writing, and from
\* Writing to Success; it enters Error only from Start, Fetched or Writing;
\* it never enters Writing when the conflict branch applies; and a call in a
\* terminal state never changes again.
C13_StateMachine ==
  [][\A c \in Calls :
       calls'[c].tool = PatchUpdate => PatchStep(calls[c], calls'[c])]_vars

\* C13 witness: one patch-update call took the conflict branch and sent no
\* PUT while another went through Writing to Success.
C13_Witness ==
  \E c, d \in Calls :
    /\ IsPatch(c) /\ calls[c].pc = "ConflictDetected"
    /\ calls[c].put = None /\ calls[c].requests = <<"GET">>
    /\ IsPatch(d) /\ calls[d].pc = "Success"
    /\ calls[d].requests = <<"GET", "PUT">>

\* C14: in every step, whoever takes it (a patch-update call, a plain update
\* call or an external writer), the version of the remote page does not
\* decrease, and every PUT a call has issued declares the version that call
\* fetched plus one.
C14_VersionOnlyIncreases ==
  [][/\ \A p \in DOMAIN remote : remote'[p].version >= remote[p].version
     /\ \A c \in Calls :
          (calls'[c].tool \in {PatchUpdate, UpdatePage} /\ calls'[c].put # None)
          => calls'[c].put.version = calls'[c].currentPage.version + 1]_vars

\* C14 witness: the page was written both by an external writer and by a
\* plain update call, and a patch-update call holds a PUT made from a fetch
\* that is by now stale.
C14_Witness ==
  \E c, d \in Calls :
    /\ calls[c].tool = UpdatePage /\ calls[c].pc = "Success"
    /\ calls[c].put.version = calls[c].currentPage.version + 1
    /\ IsPatch(d) /\ calls[d].pc = "Writing"
    /\ calls[d].put.version = calls[d].currentPage.version + 1
    /\ remote[PageId].version > calls[c].put.version
    /\ remote[PageId].version > calls[d].currentPage.version

StatusOf(pc) ==
  CASE pc = "ConflictDetected" -> "conflict-detected"
    [] pc = "NoChangesNeeded" -> "no-changes"
    [] pc = "Success" -> "success"

\* C15: a patch-update call that ends in conflict-detected, no-changes or
\* success is answered with a normal tool response whose text carries the
\* matching updateStatus; a tool call is answered with an error exactly when
\* it threw, which happens only for a validation failure, a remote failure or
\* an unknown tool name, and the error carries no result.
C15_OutcomesAreResponses ==
  \A c \in Calls :
    LET call == calls[c]
        response == ToolResponse(call)
    IN /\ (IsPatch(c) /\ call.pc \in {"ConflictDetected", "NoChangesNeeded", "Success"})
            => /\ response # None /\ ~response.isError
               /\ Len(response.content) = 1
               /\ response.content[1].text.json.updateStatus = StatusOf(call.pc)
       /\ call.pc = "Error"
            => /\ response # None /\ response.isError
               /\ response.content = << >>
               /\ call.result = None
               /\ call.error \in {"validation", "remote", "unknown-tool"}
       /\ (response # None /\ response.isError) => call.pc = "Error"

\* C15 witness: a conflict-detected call was answered with a normal response
\* while another call was answered with an error for an unknown tool name.
C15_Witness ==
  \E c, d \in Calls :
    /\ IsPatch(c) /\ calls[c].pc = "ConflictDetected"
    /\ ~ToolResponse(calls[c]).isError
    /\ ToolResponse(calls[c]).content[1].text.json.updateStatus = "conflict-detected"
    /\ calls[d].tool = UnknownTool /\ calls[d].pc = "Error"
    /\ ToolResponse(calls[d]).isError
    /\ ToolResponse(calls[d]).error = "unknown-tool"

\* ------------------------------------------------- runs over two documents
OtherPageId == <<"2">>
Documents == {PageId, OtherPageId}

\* Patch-update requests on either document.
DocRequests ==
  {[name |-> PatchUpdate,
    arguments |-> Args(Str(p), Str(NewTitle), Str(b), v, Undefined)] :
     p \in Documents, b \in {BodyA, BodyB}, v \in {Undefined, Num(1)}}
  \cup {[name |-> PatchUpdate,
         arguments |-> Args(Str(PageId), Str(PaddedTitle), Str(b), Undefined, Undefined)] :
          b \in {PaddedBodyB, BodySpA}}
  \cup {[name |-> CreatePage,
         arguments |-> [space_key |-> Str(SpaceKey), title |-> Str(NewTitle),
                        content |-> Str(BodyB)]]}

InitDocs ==
  /\ remote = [p \in Documents |->
                 [version |-> 1, title |-> OldTitle,
                  body |-> IF p = PageId THEN BodyA ELSE BodyB]]
  /\ enforce \in BOOLEAN
  /\ calls = [c \in Calls |-> IdleCall]
  /\ probe = None
  /\ job = None

NextDocs ==
  \/ \E c \in Calls : \E request \in DocRequests : CallTool(c, request)
  \/ \E c \in Calls : FetchOk(c)
  \/ \E c \in Calls : FetchFail(c)
  \/ \E c \in Calls : Decide(c)
  \/ \E c \in Calls : WriteCommit(c)
  \/ \E c \in Calls : WriteOk(c)
  \/ \E c \in Calls : WriteLost(c)
  \/ \E c \in Calls : WriteRejected(c)
  \/ \E c \in Calls : WriteFail(c)
  \/ \E c \in Calls : CreateCommit(c)
  \/ \E c \in Calls : CreateOk(c)
  \/ \E c \in Calls : CreateFail(c)
  \/ \E p \in Documents : ExternalWriteOn(p, BodyB)

SpecDocs == InitDocs /\ [][NextDocs]_vars

\* C16: whatever other calls did, on the same or on another document, a
\* patch-update call's branch, the PUT it issues and the value it returns are
\* what the handler computes from the call's own arguments, the page its own
\* GET returned and the answer to its own PUT.
C16_OutcomeIsOwn ==
  \A c \in Calls :
    LET call == calls[c]
    IN IsPatch(c)
       => /\ call.pc \in {"NoChangesNeeded", "ConflictDetected", "Writing"}
               => LET d == Decision(call.args, call.currentPage)
                  IN call.pc = d.pc /\ call.put = d.put /\ call.result = d.result
          /\ call.pc = "Success"
               => /\ call.put = Decision(call.args, call.currentPage).put
                  /\ call.responses = <<"ok", "ok">>
                  /\ call.result = SuccessResult(call.args, call.currentPage, PutAnswer(call))
          /\ call.pc = "Error"
               => \/ call.error = "validation" /\ ValidationThrows(call.args)
                  \/ call.error = "remote" /\ call.responses = <<"failed">>
                  \/ /\ call.error = "remote" /\ call.responses = <<"ok", "failed">>
                     /\ call.put = Decision(call.args, call.currentPage).put

\* C16 witness: a call on one document ended on the no-changes branch after
\* another call had fetched, written and changed the other document.
C16_Witness ==
  \E c, d \in Calls :
    /\ IsPatch(c) /\ IsPatch(d)
    /\ calls[c].args.pageId = Str(PageId) /\ calls[d].args.pageId = Str(OtherPageId)
    /\ calls[d].pc = "Success" /\ remote[OtherPageId].version = 2
    /\ remote[OtherPageId].body = BodyA
    /\ calls[c].pc = "NoChangesNeeded"
    /\ calls[c].currentPage.body = BodyA

\* ------------------------------------- the helper functions on their own
\* All sequences over S of length at most n.
SeqsUpTo(S, n) == UNION {[1..k -> S] : k \in 0..n}

\* The bodies of the worked example of the patch-update guide's line counts:
\* "line1\nline2\nline3" and "line1\nlineX\nline3\nline4".
Line(tag) == <<"l", "i", "n", "e", tag>>
ExampleOld == Line("1") \o <<"\n">> \o Line("2") \o <<"\n">> \o Line("3")
ExampleNew ==
  Line("1") \o <<"\n">> \o Line("X") \o <<"\n">> \o Line("3") \o <<"\n">> \o Line("4")

\* Bodies handed to calculateContentDiff.
Texts == SeqsUpTo({"x", "y", "\n"}, MaxTextLen) \cup {ExampleOld, ExampleNew}

\* Values handed to validateInput: absent values, non-strings, short strings
\* with white space, and strings with an unsafe marker or a near miss of one.
Paddings == {<< >>, <<" ">>, <<"a">>}
ProbeInputs ==
  {Undefined, Null, Num(0), Num(1), Bool(FALSE), Bool(TRUE)}
  \cup {Str(t) : t \in SeqsUpTo({" ", "a", "\f", "U+00A0"}, MaxTextLen)}
  \cup {Str(pre \o marker \o post) :
          pre \in Paddings, post \in Paddings,
          marker \in {ScriptTag, JavascriptUri,
                      SubSeq(ScriptTag, 1, 6), SubSeq(JavascriptUri, 1, 10)}}

\* A helper is about to be called on an input drawn from the sets above.
Pending(fn, input) == [fn |-> fn, input |-> input, diff |-> None, out |-> None]

InitPure ==
  /\ remote = [p \in {PageId} |-> [version |-> 1, title |-> OldTitle, body |-> BodyA]]
  /\ enforce = FALSE
  /\ calls = [c \in Calls |-> IdleCall]
  /\ probe \in {Pending("calculateContentDiff",
                          [originalContent |-> originalContent, newContent |-> newContent]) :
                  originalContent \in Texts, newContent \in Texts}
               \cup {Pending("validateInput", [input |-> input]) : input \in ProbeInputs}
  /\ job = None

\* calculateContentDiff(originalContent, newContent) runs.
Summarize ==
  /\ probe.fn = "calculateContentDiff" /\ probe.out = None
  /\ probe' = [probe EXCEPT
                 !.diff = diffLines(probe.input.originalContent, probe.input.newContent),
                 !.out = calculateContentDiff(probe.input.originalContent,
                                              probe.input.newContent)]
  /\ UNCHANGED <<job, remote, enforce, calls>>

\* validateInput(input, type) runs.
Validate ==
  /\ probe.fn = "validateInput" /\ probe.out = None
  /\ probe' = [probe EXCEPT !.out = validateInput(probe.input.input)]
  /\ UNCHANGED <<job, remote, enforce, calls>>

NextPure == Summarize \/ Validate

SpecPure == InitPure /\ [][NextPure]_vars

Summarized == probe # None /\ probe.fn = "calculateContentDiff" /\ probe.out # None
Validated == probe # None /\ probe.fn = "validateInput" /\ probe.out # None

\* Sum of the counts of the parts of a diff that carry the given tag.
RECURSIVE CountSum(_, _)
CountSum(diff, tag) ==
  IF diff = << >> THEN 0
  ELSE (IF (tag = "added" /\ Head(diff).added) \/ (tag = "removed" /\ Head(diff).removed)
          THEN Head(diff).count ELSE 0) + CountSum(Tail(diff), tag)

\* C17: for every pair of bodies, calculateContentDiff returns hasChanges
\* true iff some part of the diff is added or removed, addedLines and
\* removedLines equal to the sums of the counts of the added and of the
\* removed parts, hence hasChanges iff addedLines + removedLines > 0, and a
\* changesSummary of '+{addedLines} -{removedLines} lines' exactly when
\* hasChanges holds ('No changes' otherwise).
C17_DiffSummary ==
  Summarized
  => LET out == probe.out
         diff == probe.diff
     IN /\ out.hasChanges <=> \E i \in DOMAIN diff : diff[i].added \/ diff[i].removed
        /\ out.addedLines = CountSum(diff, "added")
        /\ out.removedLines = CountSum(diff, "removed")
        /\ out.hasChanges <=> out.addedLines + out.removedLines > 0
        /\ out.hasChanges
             <=> out.changesSummary = [text |-> "+{0} -{1} lines",
                                       args |-> <<out.addedLines, out.removedLines>>]
        /\ ~out.hasChanges
             <=> out.changesSummary = [text |-> "No changes", args |-> << >>]

\* C17 witness: a diff with a common part, a removed part and an added part
\* of more than one line was summarized.
C17_Witness ==
  /\ Summarized
  /\ \E i, j, k \in DOMAIN probe.diff :
       /\ ~probe.diff[i].added /\ ~probe.diff[i].removed
       /\ probe.diff[j].removed
       /\ probe.diff[k].added /\ probe.diff[k].count > 1
  /\ probe.out.hasChanges /\ probe.out.addedLines > 1

ExampleSummarized ==
  /\ Summarized
  /\ probe.input = [originalContent |-> ExampleOld, newContent |-> ExampleNew]

\* C18 as stated: summarizing "line1\nline2\nline3" against
\* "line1\nlineX\nline3\nline4" gives addedLines 2, removedLines 1 and
\* hasChanges true.
C18_ExampleCounts_AsStated ==
  ExampleSummarized
  => /\ probe.out.addedLines = 2
     /\ probe.out.removedLines = 1
     /\ probe.out.hasChanges

\* C18: summarizing "line1\nline2\nline3" against
\* "line1\nlineX\nline3\nline4" gives addedLines 3, removedLines 2 and
\* hasChanges true: the old last line "line3" has no line terminator and the
\* new "line3\n" has one, so only line1 is common; line2 and line3 count as
\* removed, lineX, line3 and line4 as added.
C18_ExampleCounts ==
  ExampleSummarized
  => /\ probe.out.addedLines = 3
     /\ probe.out.removedLines = 2
     /\ probe.out.hasChanges
     /\ probe.diff = <<[added |-> FALSE, removed |-> FALSE, count |-> 1],
                       [added |-> FALSE, removed |-> TRUE, count |-> 2],
                       [added |-> TRUE, removed |-> FALSE, count |-> 3]>>

\* C18 witness: the two bodies of the example were summarized.
C18_Witness ==
  /\ ExampleSummarized
  /\ Len(Lines(probe.input.originalContent)) = 3
  /\ Len(Lines(probe.input.newContent)) = 4
  /\ probe.out.hasChanges

\* C19: for every body X, the empty one included, summarizing X against X
\* gives hasChanges false, addedLines 0 and removedLines 0, whatever the
\* length of X.
C19_SameBodyNoChanges ==
  (Summarized /\ probe.input.originalContent = probe.input.newContent)
  => /\ ~probe.out.hasChanges
     /\ probe.out.addedLines = 0
     /\ probe.out.removedLines = 0

\* C19 witness: a body of several lines was summarized against itself.
C19_Witness ==
  /\ Summarized
  /\ probe.input.originalContent = probe.input.newContent
  /\ Len(Lines(probe.input.originalContent)) >= 3
  /\ ~probe.out.hasChanges

AllWhiteSpace(s) == \A i \in DOMAIN s : s[i] \in WhiteSpace
Unsafe(s) == Includes(s, ScriptTag) \/ Includes(s, JavascriptUri)

\* t is s without its leading and trailing white space.
IsTrimOf(t, s) ==
  \E i, j \in DOMAIN s :
    /\ i <= j
    /\ t = SubSeq(s, i, j)
    /\ s[i] \notin WhiteSpace /\ s[j] \notin WhiteSpace
    /\ \A k \in DOMAIN s : (k < i \/ k > j) => s[k] \in WhiteSpace

\* C20: validateInput (required left at true) throws for every input that is
\* missing, empty or made of white space only, throws for every input that
\* contains '<script' or 'javascript:', and for every other string returns
\* the input without its leading and trailing white space.
C20_ValidateInput ==
  Validated
  => LET input == probe.input.input
         out == probe.out
     IN /\ input.kind \in {"undefined", "null"} => out.threw
        /\ (input.kind = "string" /\ AllWhiteSpace(input.chars)) => out.threw
        /\ (input.kind = "string" /\ Unsafe(input.chars)) => out.threw
        /\ (input.kind = "string" /\ ~AllWhiteSpace(input.chars) /\ ~Unsafe(input.chars))
             => ~out.threw /\ IsTrimOf(out.value, input.chars)

\* C20 witness: a safe string with white space at both ends was validated
\* and came back shorter.
C20_Witness ==
  /\ Validated
  /\ probe.input.input.kind = "string"
  /\ Len(probe.input.input.chars) >= 3
  /\ Head(probe.input.input.chars) \in WhiteSpace
  /\ probe.input.input.chars[Len(probe.input.input.chars)] \in WhiteSpace
  /\ ~probe.out.threw
  /\ Len(probe.out.value) < Len(probe.input.input.chars)

\* C23 (as stated): a stale baseline stays stale.  Once some call has fetched
\* a version greater than b, a patch-update call that fetches no earlier
\* version, carries originalVersion b and no forceUpdate, and whose body
\* differs from the body it fetched, returns conflict-detected and issues no
\* PUT.
C23_StaleBaselineStaysStale ==
  \A c, d \in Calls :
    (/\ c # d
     /\ calls[d].currentPage # None
     /\ Decided(c)
     /\ calls[c].args.originalVersion.kind = "number"
     /\ calls[c].args.originalVersion.num < calls[d].currentPage.version
     /\ calls[d].currentPage.version <= FetchedVersion(c)
     /\ ~ForceRequested(c)
     /\ BodyDiffers(c))
    => calls[c].pc = "ConflictDetected" /\ Writes(c) = 0

\* C24 (as stated): a call with originalVersion 0, no forceUpdate and a body
\* differing from the current body skips the conflict check and issues a
\* PUT, whatever the fetched version.
C24_ZeroBaselineWrites_AsStated ==
  \A c \in Calls :
    (/\ Decided(c)
     /\ calls[c].args.originalVersion = Num(0)
     /\ ~ForceRequested(c)
     /\ BodyDiffers(c))
    => calls[c].pc # "ConflictDetected" /\ WentToWrite(c)

\* C24 (amended): a call with originalVersion 0, no forceUpdate and a body
\* that differs from the current body after its leading and trailing white
\* space is removed is never a conflict and issues a PUT declaring the
\* fetched version plus one, whatever the fetched version.
C24_ZeroBaselineWrites ==
  \A c \in Calls :
    (/\ Decided(c)
     /\ calls[c].args.originalVersion = Num(0)
     /\ ~ForceRequested(c))
    => /\ calls[c].pc # "ConflictDetected"
       /\ TrimmedBodyDiffers(c)
            => WentToWrite(c) /\ calls[c].put.version = FetchedVersion(c) + 1

\* C24 witness: a call with originalVersion 0 and no forceUpdate, made after
\* the page had moved to a later version, issued its PUT.
C24_Witness ==
  \E c \in Calls :
    /\ Decided(c)
    /\ calls[c].args.originalVersion = Num(0)
    /\ ~ForceRequested(c)
    /\ FetchedVersion(c) > 1
    /\ WentToWrite(c)

\* The requested title, as supplied, is not the title of the fetched page.
TitleDiffers(c) == calls[c].args.title.chars # calls[c].currentPage.title

\* C25 (as stated): a call whose body equals the current body and whose
\* title differs from the current title returns no-changes and issues no
\* PUT, and the step in which it decides leaves the remote page as it is.
C25_TitleIsNotCompared_AsStated ==
  [][\A c \in Calls :
       (calls'[c].currentPage # None /\ Decided(c)' /\ ~BodyDiffers(c)' /\ TitleDiffers(c)')
       => /\ calls'[c].pc = "NoChangesNeeded"
          /\ calls'[c].put = None
          /\ Writes(c)' = 0
          /\ calls'[c] # calls[c] => remote' = remote]_vars

\* C25 (amended): a call whose body, after its leading and trailing white
\* space is removed, equals the current body and whose title differs from
\* the current title returns no-changes and issues no PUT, and the step in
\* which it decides leaves the remote page's title, body and version as
\* they are.
C25_TitleIsNotCompared ==
  [][\A c \in Calls :
       (calls'[c].currentPage # None /\ Decided(c)' /\ ~TrimmedBodyDiffers(c)'
        /\ TitleDiffers(c)')
       => /\ calls'[c].pc = "NoChangesNeeded"
          /\ calls'[c].put = None
          /\ Writes(c)' = 0
          /\ calls'[c] # calls[c] => remote' = remote]_vars

\* C25 witness: a call asking for another title with the body as it is
\* returned no-changes, and the page still has its old title and version.
C25_Witness ==
  \E c \in Calls :
    /\ IsPatch(c) /\ calls[c].pc = "NoChangesNeeded"
    /\ TitleDiffers(c)
    /\ Writes(c) = 0
    /\ remote[PageId].title = calls[c].currentPage.title
    /\ remote[PageId].title # calls[c].args.title.chars
    /\ remote[PageId].version = FetchedVersion(c)
    /\ remote[PageId].body = calls[c].currentPage.body

\* C26: the title and the body of every PUT of patch-update are the
\* request's title and content without their leading and trailing white
\* space, so on success the body written is trim(content); and the call
\* returns no-changes exactly when trim(content) is the current body,
\* whatever the content as supplied.
C26_TrimmedBodyIsUsed ==
  \A c \in Calls :
    Decided(c)
    => /\ calls[c].put # None
            => /\ calls[c].put.body = Trim(SuppliedBody(c))
               /\ calls[c].put.title = Trim(calls[c].args.title.chars)
       /\ (calls[c].pc = "Success" /\ remote[calls[c].put.id].version = calls[c].prior + 1)
            => remote[calls[c].put.id].body = Trim(SuppliedBody(c))
       /\ calls[c].pc = "NoChangesNeeded" <=> ~TrimmedBodyDiffers(c)

\* C26 witness: a call whose title and content carry white space at both
\* ends returned success, and the page holds the trimmed title and body.
C26_Witness ==
  \E c \in Calls :
    /\ IsPatch(c) /\ calls[c].pc = "Success"
    /\ calls[c].args.title = Str(PaddedTitle)
    /\ calls[c].args.content = Str(PaddedBodyB)
    /\ remote[PageId].version = calls[c].prior + 1
    /\ remote[PageId].body = BodyB
    /\ remote[PageId].title = NewTitle

\* Call d repeats call c: the same request, fetched when the page was as c's
\* accepted PUT left it.
Repeats(d, c) ==
  /\ c # d
  /\ IsPatch(c) /\ calls[c].pc = "Success"
  /\ Decided(d)
  /\ calls[d].args = calls[c].args
  /\ FetchedVersion(d) = calls[c].prior + 1

\* C27: when a patch-update call returned success and the same request is
\* repeated while the page is still as that call wrote it, forceUpdate not
\* set, the repeated call fetches the body the first one sent, returns
\* no-changes and issues no PUT, also with its now stale originalVersion.
C27_RepeatIsNoOp ==
  \A c, d \in Calls :
    (Repeats(d, c) /\ ~ForceRequested(d))
    => /\ calls[d].currentPage.body = calls[c].put.body
       /\ calls[d].pc = "NoChangesNeeded"
       /\ calls[d].result.updateStatus = "no-changes"
       /\ Writes(d) = 0

\* C27 witness: a request with a baseline equal to the version it found was
\* repeated after its success; the repeat returned no-changes and the page
\* is one version further than before the two calls.
C27_Witness ==
  \E c, d \in Calls :
    /\ Repeats(d, c) /\ ~ForceRequested(d)
    /\ calls[c].args.originalVersion = Num(FetchedVersion(c))
    /\ calls[c].prior = FetchedVersion(c)
    /\ BaselineDiffers(d)
    /\ calls[d].pc = "NoChangesNeeded"
    /\ remote[PageId].version = FetchedVersion(c) + 1

IsUpdate(c) == calls[c].tool = UpdatePage

\* C28: a confluence_update_page call with valid inputs has no conflict and
\* no no-changes outcome: once its GET is answered its next step issues the
\* PUT, and from then on it has sent one GET followed by one PUT declaring
\* the fetched version plus one, whether or not the content is the current
\* content and whatever other writers did to the page before.
C28_PlainUpdateAlwaysWrites ==
  [][\A c \in Calls :
       IsUpdate(c)'
       => /\ calls'[c].pc \notin {"NoChangesNeeded", "ConflictDetected"}
          /\ (calls[c].pc = "Fetched" /\ calls'[c] # calls[c])
               => calls'[c].pc = "Writing"
          /\ (calls'[c].currentPage # None /\ calls'[c].pc # "Fetched")
               => /\ calls'[c].requests = <<"GET", "PUT">>
                  /\ calls'[c].put.version = calls'[c].currentPage.version + 1
                  /\ calls'[c].put.body = Trim(calls'[c].args.content.chars)]_vars

\* C28 witness: a plain update made after the page had been changed by
\* others, with the content the page already held, wrote and succeeded.
C28_Witness ==
  \E c \in Calls :
    /\ IsUpdate(c) /\ calls[c].pc = "Success"
    /\ FetchedVersion(c) > 1
    /\ calls[c].args.content.chars = calls[c].currentPage.body
    /\ calls[c].requests = <<"GET", "PUT">>
    /\ calls[c].put.version = FetchedVersion(c) + 1

\* ------------------------------- confluence_get_page_with_attachments
\* The listings the store answers with.
Listings == SeqsUpTo(Attachments, MaxAttachments)

\* The invocations of the runs of this tool: a page id and a blank one, and
\* downloadAttachments left out, false and true.
AttachRequests ==
  {[name |-> GetPageWithAttachments,
    arguments |-> [pageId |-> pageId, downloadAttachments |-> flag]] :
     pageId \in {Str(PageId), Str(<<" ">>)},
     flag \in {Undefined, Bool(FALSE), Bool(TRUE)}}

\* These runs make one invocation.
AttachCalls == {"c1"}

InitAttach ==
  /\ remote = [p \in {PageId} |-> [version |-> 1, title |-> OldTitle, body |-> BodyA]]
  /\ enforce = FALSE
  /\ calls = [c \in Calls |-> IdleCall]
  /\ probe = None
  /\ job = None

NextAttach ==
  \/ \E c \in AttachCalls : \E request \in AttachRequests : CallTool(c, request)
  \/ \E c \in AttachCalls : FetchOk(c)
  \/ \E c \in AttachCalls : FetchFail(c)
  \/ \E c \in AttachCalls : \E listing \in Listings : ListOk(c, listing)
  \/ \E c \in AttachCalls : ListFail(c)
  \/ \E c \in AttachCalls : DownloadOk(c)
  \/ \E c \in AttachCalls : DownloadFail(c)

SpecAttach == InitAttach /\ [][NextAttach]_vars

IsAttach(c) == calls[c].tool = GetPageWithAttachments

\* The listed attachments whose download was answered well, in order, as
\* the handler reports them.
RECURSIVE Succeeded(_, _, _)
Succeeded(listing, outcomes, i) ==
  IF i > Len(outcomes) THEN << >>
  ELSE (IF outcomes[i] = "ok"
          THEN <<[filename |-> Trim(listing[i].title), data |-> Trim(listing[i].id)]>>
          ELSE << >>) \o Succeeded(listing, outcomes, i + 1)

\* C29: with downloadAttachments true and a listing that is not empty, a
\* failed download does not fail the call: every listed attachment is
\* attempted, in listing order, and the call returns downloadedAttachments
\* equal to the listed attachments whose download succeeded, in order.  The
\* call fails only when pageId is invalid or the GET of the page or of the
\* listing fails, and then returns nothing; and a failed GET of the page or
\* of the listing always fails the call, with no result and no download
\* asked for.  Without downloadAttachments no download request is sent and
\* the result has no downloadedAttachments.
C29_AttachmentFailuresSkipped ==
  \A c \in Calls :
    IsAttach(c)
    => LET call == calls[c]
           loop == call.attach
       IN /\ call.pc = "Returned"
               => /\ call.result.attachments = loop.attachments
                  /\ (loop.downloadAttachments /\ loop.attachments # << >>)
                       => /\ Len(loop.outcomes) = Len(loop.attachments)
                          /\ call.result.downloadedAttachments
                               = Succeeded(loop.attachments, loop.outcomes, 1)
                  /\ ~(loop.downloadAttachments /\ loop.attachments # << >>)
                       => call.result.downloadedAttachments = Undefined
          /\ call.pc = "Error"
               => /\ call.result = None
                  /\ loop.outcomes = << >>
                  /\ \/ call.error = "validation" /\ call.requests = << >>
                     \/ /\ call.error = "remote"
                        /\ call.requests \in {<<"GET">>, <<"GET", "attachments">>}
          /\ (\E i \in DOMAIN call.responses :
                 i <= 2 /\ call.responses[i] = "failed")
               => /\ call.pc = "Error"
                  /\ call.error = "remote"
                  /\ call.result = None
                  /\ Len(call.requests) = Len(call.responses)
                  /\ loop.downloads = << >>
          /\ ~loop.downloadAttachments => loop.downloads = << >>
          /\ \A i \in DOMAIN loop.downloads :
               \E k \in DOMAIN loop.attachments :
                 /\ loop.downloads[i] = Trim(loop.attachments[k].id)
                 /\ k >= i
                 /\ k <= Len(loop.outcomes) + 1

\* C29 witness: of three listed attachments the first download failed and
\* the two after it were still made and returned.
C29_Witness ==
  \E c \in Calls :
    /\ IsAttach(c) /\ calls[c].pc = "Returned"
    /\ calls[c].attach.attachments = <<PlainAttachment, PaddedAttachment, PlainAttachment>>
    /\ calls[c].attach.outcomes = <<"failed", "ok", "ok">>
    /\ Len(calls[c].result.downloadedAttachments) = 2
    /\ calls[c].result.downloadedAttachments[1].filename = <<"g">>

\* ------------------------------------------------ downloadPageHierarchy
\* `if (spacePages.length <= 20)`: the largest space search that is taken in.
SpaceSearchLimit == 20

\* Page ids of the runs: the root (asked for as typed, or with a blank in
\* front, which the server's validateInput trims away), two children, a
\* page of the space, and filler pages s(1), s(2), ... of a large space.
RootId == <<"1">>
ChildA == <<"2">>
ChildB == <<"3">>
SpacePage == <<"4">>
Filler(i) == <<"s">> \o [k \in 1..i |-> "0"]
FillerList(n) == [i \in 1..n |-> Filler(i)]

RootArguments == {RootId, <<" ">> \o RootId}
ChildSearches == {<< >>, <<ChildA>>, <<ChildA, ChildA>>, <<ChildA, ChildB>>}
\* Answers of the space-wide search: nothing, a small space, a space of
\* exactly SpaceSearchLimit pages and one of a page more; the root is a page
\* of its space.
SpaceSearches ==
  {<< >>,
   <<RootId, ChildA, SpacePage>>,
   <<RootId, ChildA>> \o FillerList(SpaceSearchLimit - 2),
   <<RootId, ChildA>> \o FillerList(SpaceSearchLimit - 1)}

\* Pages whose turn of the page loop can fail, at the download or at the
\* writing of a file, and whose answer can carry downloaded attachments;
\* each turn fails or not on its own.  The other pages (a second child, the
\* fillers of a large space) come through without attachments.
Fragile == {RootId, ChildA, SpacePage}

\* The file names of pageData.downloadedAttachments in an answer.
DownloadedLists == {<< >>, <<(<<"f">>)>>, <<(<<"f">>), (<<"g">>)>>}

PageAnswers(page) == IF page \in Fragile THEN DownloadedLists ELSE {<< >>}

\* Adding search results to the list: `if (!allPageIds.has(page.id))`.
RECURSIVE AddPages(_, _)
AddPages(acc, pages) ==
  IF pages = << >> THEN acc
  ELSE IF Head(pages) \in acc.allPageIds
    THEN AddPages(acc, Tail(pages))
    ELSE AddPages([allPages |-> Append(acc.allPages, Head(pages)),
                   allPageIds |-> acc.allPageIds \cup {Head(pages)}],
                  Tail(pages))

\* Step 2 of downloadPageHierarchy: the ids of allPages.  The list starts
\* with the fetched root page while the id set starts with the rootPageId
\* argument.
PagesToDownload(rootPageId, rootPageData, childPages, spacePages) ==
  LET root == [allPages |-> <<rootPageData.id>>, allPageIds |-> {rootPageId}]
      withChildren == AddPages(root, childPages)
  IN IF Len(spacePages) <= SpaceSearchLimit
       THEN AddPages(withChildren, spacePages).allPages
       ELSE withChildren.allPages

\* The export is started and waits for the output directory.  attempted
\* and outcomes hold, per finished turn of the page loop, the page and how
\* the turn ended; pageData and written belong to the turn in progress.
ExportJob(rootPageId, hasSpace, childPages, spacePages) ==
  [op |-> "downloadPageHierarchy", pc |-> "Mkdir",
   rootPageId |-> rootPageId, hasSpace |-> hasSpace,
   childSearch |-> childPages, spaceSearch |-> spacePages,
   allPages |-> << >>, attempted |-> << >>, outcomes |-> << >>,
   pageData |-> None, written |-> 0,
   downloadedPages |-> << >>, allAttachments |-> << >>,
   manifest |-> None, error |-> "none"]

InitExport ==
  /\ remote = [p \in {PageId} |-> [version |-> 1, title |-> OldTitle, body |-> BodyA]]
  /\ enforce = FALSE
  /\ calls = [c \in Calls |-> IdleCall]
  /\ probe = None
  /\ job \in {ExportJob(rootPageId, hasSpace, childPages, spacePages) :
                rootPageId \in RootArguments, hasSpace \in BOOLEAN,
                childPages \in ChildSearches, spacePages \in SpaceSearches}

ExportRunning == job # None /\ job.op = "downloadPageHierarchy"

\* What the server answers confluence_get_page with: the page whose id is
\* the trimmed pageId argument.
RootPageData(rootPageId) == [id |-> Trim(rootPageId)]

\* The page of the turn in progress.
CurrentPage(j) == j.allPages[Len(j.attempted) + 1]

\* A turn of the page loop is over: the loop goes on with the next page, or
\* ends and the README is written.
EndTurn(j, outcome) ==
  LET turned == [j EXCEPT !.attempted = Append(@, CurrentPage(j)),
                          !.outcomes = Append(@, outcome),
                          !.pageData = None, !.written = 0]
  IN IF Len(turned.attempted) = Len(turned.allPages)
       THEN [turned EXCEPT !.pc = "Readme"]
       ELSE [turned EXCEPT !.pc = "Pages"]

\* Mutant: the page loop has no try/catch, a failed page ends the export.
PageFailed_Throws(j, outcome) == [j EXCEPT !.pc = "Error", !.error = "page"]

\* The catch of the page loop: the failure is logged, nothing else is
\* recorded, and the turn is over.
PageFailed(j, outcome) == EndTurn(j, outcome)

\* The entry pushed to downloadedPages for a saved page.
DownloadedPage(j, pageData) ==
  [id |-> pageData.id,
   attachmentCount |-> Len(pageData.downloadedAttachments),
   isRoot |-> pageData.id = j.rootPageId]

\* The entry pushed to allAttachments for a written attachment.
SavedAttachment(pageData, filename) == [filename |-> filename, pageId |-> pageData.id]

\* `new Map(allAttachments.map(att => [att.filename, att])).values()`: one
\* entry per file name, in the order the names first came, each the last
\* entry of its name.
RECURSIVE FirstNames(_, _)
FirstNames(attachments, seen) ==
  IF attachments = << >> THEN << >>
  ELSE IF Head(attachments).filename \in seen
    THEN FirstNames(Tail(attachments), seen)
    ELSE <<Head(attachments).filename>>
           \o FirstNames(Tail(attachments), seen \cup {Head(attachments).filename})

UniqueAttachments(allAttachments) ==
  LET names == FirstNames(allAttachments, {})
      last(name) == CHOOSE i \in DOMAIN allAttachments :
                      /\ allAttachments[i].filename = name
                      /\ \A k \in DOMAIN allAttachments :
                           allAttachments[k].filename = name => k <= i
  IN [n \in DOMAIN names |-> allAttachments[last(names[n])]]

\* The output directory is created.
ExportMkdirOk ==
  /\ ExportRunning /\ job.pc = "Mkdir"
  /\ job' = [job EXCEPT !.pc = "MkdirAttachments"]
  /\ UNCHANGED <<remote, enforce, calls, probe>>

\* Its attachments folder is created and the root page is asked for.
ExportMkdirAttachmentsOk ==
  /\ ExportRunning /\ job.pc = "MkdirAttachments"
  /\ job' = [job EXCEPT !.pc = "Root"]
  /\ UNCHANGED <<remote, enforce, calls, probe>>

\* The root page arrives: without a space key the export throws.
ExportRootOk ==
  /\ ExportRunning /\ job.pc = "Root"
  /\ job' = IF job.hasSpace
              THEN [job EXCEPT !.pc = "ChildSearch"]
              ELSE [job EXCEPT !.pc = "Error", !.error = "no-space-key"]
  /\ UNCHANGED <<remote, enforce, calls, probe>>

\* The search for child pages is answered.
ExportChildSearchOk ==
  /\ ExportRunning /\ job.pc = "ChildSearch"
  /\ job' = [job EXCEPT !.pc = "SpaceSearch"]
  /\ UNCHANGED <<remote, enforce, calls, probe>>

\* The space-wide search is answered: the list of pages is built and the
\* page loop asks for its first page.
ExportSpaceSearchOk ==
  /\ ExportRunning /\ job.pc = "SpaceSearch"
  /\ job' = [job EXCEPT
               !.pc = "Pages",
               !.allPages = PagesToDownload(job.rootPageId, RootPageData(job.rootPageId),
                                            job.childSearch, job.spaceSearch)]
  /\ UNCHANGED <<remote, enforce, calls, probe>>

\* The page of this turn arrives with its downloaded attachments: the first
\* of them is written, or, when there is none, the page file.
ExportPageOk(downloadedAttachments) ==
  /\ ExportRunning /\ job.pc = "Pages"
  /\ downloadedAttachments \in PageAnswers(CurrentPage(job))
  /\ job' = [job EXCEPT
               !.pageData = [id |-> CurrentPage(job),
                             downloadedAttachments |-> downloadedAttachments],
               !.pc = IF Len(downloadedAttachments) > 0 THEN "Attachment" ELSE "PageFile"]
  /\ UNCHANGED <<remote, enforce, calls, probe>>

\* The tool call of this turn fails.
ExportPageFail ==
  /\ ExportRunning /\ job.pc = "Pages"
  /\ CurrentPage(job) \in Fragile
  /\ job' = PageFailed(job, "download")
  /\ UNCHANGED <<remote, enforce, calls, probe>>

\* An attachment of the page is written and listed; the next one is
\* written, or after the last the page file.
ExportAttachmentOk ==
  /\ ExportRunning /\ job.pc = "Attachment"
  /\ LET filename == job.pageData.downloadedAttachments[job.written + 1]
     IN job' = [job EXCEPT
                  !.written = @ + 1,
                  !.allAttachments = Append(@, SavedAttachment(job.pageData, filename)),
                  !.pc = IF job.written + 1 = Len(job.pageData.downloadedAttachments)
                           THEN "PageFile" ELSE "Attachment"]
  /\ UNCHANGED <<remote, enforce, calls, probe>>

\* The writing of an attachment fails: the attachments of the page written
\* before it stay listed.
ExportAttachmentFail ==
  /\ ExportRunning /\ job.pc = "Attachment"
  /\ job' = PageFailed(job, "attachment")
  /\ UNCHANGED <<remote, enforce, calls, probe>>

\* The page file is written and the page is listed.
ExportPageFileOk ==
  /\ ExportRunning /\ job.pc = "PageFile"
  /\ job' = EndTurn([job EXCEPT !.downloadedPages =
                       Append(@, DownloadedPage(job, job.pageData))], "ok")
  /\ UNCHANGED <<remote, enforce, calls, probe>>

\* The writing of the page file fails.
ExportPageFileFail ==
  /\ ExportRunning /\ job.pc = "PageFile"
  /\ CurrentPage(job) \in Fragile
  /\ job' = PageFailed(job, "file")
  /\ UNCHANGED <<remote, enforce, calls, probe>>

\* README.md is written.
ExportReadmeOk ==
  /\ ExportRunning /\ job.pc = "Readme"
  /\ job' = [job EXCEPT !.pc = "Manifest"]
  /\ UNCHANGED <<remote, enforce, calls, probe>>

\* hierarchy.json is written and the manifest is returned.
ExportManifestOk ==
  /\ ExportRunning /\ job.pc = "Manifest"
  /\ job' = [job EXCEPT
               !.pc = "Done",
               !.manifest = [rootPageId |-> job.rootPageId,
                             totalPages |-> Len(job.downloadedPages),
                             totalAttachments |->
                               Len(UniqueAttachments(job.allAttachments)),
                             pages |-> job.downloadedPages,
                             attachments |-> UniqueAttachments(job.allAttachments)]]
  /\ UNCHANGED <<remote, enforce, calls, probe>>

\* What fails when an awaited call outside the page loop fails.
AbortCause(pc) ==
  CASE pc \in {"Mkdir", "MkdirAttachments"} -> "mkdir"
    [] pc = "Root" -> "root-fetch"
    [] pc \in {"ChildSearch", "SpaceSearch"} -> "search"
    [] pc \in {"Readme", "Manifest"} -> "write"

\* An awaited call outside the page loop fails: the outer catch rethrows.
ExportAbort ==
  /\ ExportRunning
  /\ job.pc \in {"Mkdir", "MkdirAttachments", "Root", "ChildSearch", "SpaceSearch",
                 "Readme", "Manifest"}
  /\ job' = [job EXCEPT !.pc = "Error", !.error = AbortCause(job.pc)]
  /\ UNCHANGED <<remote, enforce, calls, probe>>

NextExport ==
  \/ ExportMkdirOk
  \/ ExportMkdirAttachmentsOk
  \/ ExportRootOk
  \/ ExportChildSearchOk
  \/ ExportSpaceSearchOk
  \/ \E downloadedAttachments \in DownloadedLists : ExportPageOk(downloadedAttachments)
  \/ ExportPageFail
  \/ ExportAttachmentOk
  \/ ExportAttachmentFail
  \/ ExportPageFileOk
  \/ ExportPageFileFail
  \/ ExportReadmeOk
  \/ ExportManifestOk
  \/ ExportAbort

SpecExport == InitExport /\ [][NextExport]_vars

\* The pages of the finished turns that were fetched and saved, in order.
Saved(j) ==
  LET RECURSIVE pick(_)
      pick(i) == IF i > Len(j.attempted) THEN << >>
                 ELSE (IF j.outcomes[i] = "ok" THEN <<j.attempted[i]>> ELSE << >>)
                        \o pick(i + 1)
  IN pick(1)

PageIds(pages) == [i \in DOMAIN pages |-> pages[i].id]

\* What C21 says of the page loop and of the manifest: the pages are
\* attempted in list order, a failed turn stops nothing, and the manifest
\* counts and lists exactly the pages that were fetched and saved.
PagesSurviveFailures ==
  /\ \E n \in 0..Len(job.allPages) : job.attempted = SubSeq(job.allPages, 1, n)
  /\ Len(job.outcomes) = Len(job.attempted)
  /\ PageIds(job.downloadedPages) = Saved(job)
  /\ job.pc \in {"Readme", "Manifest", "Done"} => job.attempted = job.allPages
  /\ job.pc = "Done"
       => /\ job.manifest.totalPages = Len(Saved(job))
          /\ PageIds(job.manifest.pages) = Saved(job)
  /\ job.error # "page"

\* C21 (as stated): a failed page does not abort the export, all pages are
\* attempted in order and the manifest holds exactly the pages that
\* succeeded; the export is aborted only by a failure of the root-page fetch
\* or of a search.
C21_ExportSurvivesPages_AsStated ==
  ExportRunning
  => /\ PagesSurviveFailures
     /\ job.pc = "Error" => job.error \in {"root-fetch", "search"}

\* C21 (amended): the same about the pages; the export is aborted by a
\* failure of the root-page fetch, by a root page without a space key, by a
\* failure of a search, and also by a failure to create the output
\* directories or to write README.md or hierarchy.json, and by nothing
\* else; an abort before the page loop leaves no page attempted.
C21_ExportSurvivesPages ==
  ExportRunning
  => /\ PagesSurviveFailures
     /\ job.pc = "Error"
          => /\ job.error \in {"mkdir", "root-fetch", "no-space-key", "search", "write"}
             /\ job.manifest = None
             /\ job.error # "write" => job.attempted = << >>
             /\ job.error = "write" => job.attempted = job.allPages

\* C21 witness: the export finished although the download of the second
\* page of three failed; the third was still attempted and the manifest
\* lists two pages.
C21_Witness ==
  /\ ExportRunning /\ job.pc = "Done"
  /\ job.allPages = <<RootId, ChildA, ChildB>>
  /\ job.outcomes = <<"ok", "download", "ok">>
  /\ job.attempted = job.allPages
  /\ job.manifest.totalPages = 2
  /\ PageIds(job.manifest.pages) = <<RootId, ChildB>>

\* No id occurs twice in the list.
NoDuplicates(pages) ==
  \A i, k \in DOMAIN pages : i # k => pages[i] # pages[k]

\* C22 (as stated): once built, the list of pages to download holds each
\* page id at most once, starts with the root page, goes on with the child
\* pages not already present, and holds pages of the space-wide search only
\* when that search returned at most 20 results.
C22_PageListIsDeduplicated ==
  (ExportRunning /\ job.allPages # << >>)
  => LET kids == AddPages([allPages |-> << >>, allPageIds |-> {Trim(job.rootPageId)}],
                          job.childSearch).allPages
     IN /\ NoDuplicates(job.allPages)
        /\ job.allPages[1] = Trim(job.rootPageId)
        /\ SubSeq(job.allPages, 2, 1 + Len(kids)) = kids
        /\ Len(job.spaceSearch) > SpaceSearchLimit
             => Len(job.allPages) = 1 + Len(kids)

====
